---- MODULE Spec2Model ----
(***************************************************************************)
(* Model of the web_read / web_search tools of the coding agent:           *)
(*   packages/coding-agent/src/core/tools/web-read.ts                      *)
(*   packages/coding-agent/src/core/tools/web-search.ts                    *)
(* A request is one call of a tool's execute().  Between two awaits the    *)
(* code of a request runs without interruption; the awaits are the fetch   *)
(* call, the backoff timers and the body read.                             *)
(*                                                                         *)
(* Text is a sequence of tokens.  A token is one character ("a", "e2" for  *)
(* a two-byte character, " ", "\n", a stray "<" or ">"), a run of text     *)
(* ("x600": 600 letters), one tag ("<i>", "</i>", "<br>", "<title>", ...)  *)
(* or one character entity ("&amp;", "&lt;").                              *)
(***************************************************************************)
EXTENDS Integers, Sequences, FiniteSets, TLC

(* ------------------------------------------------------------------ *)
(* Bounds of the model and program constants                           *)
(* ------------------------------------------------------------------ *)

\* number of requests that run concurrently
NumReqs == 2

\* byte and line caps of the truncator, scaled down
MaxBytes == 4
MaxLines == 2

\* longest text given to the truncator on its own
MaxTextLen == 5

\* retry budget both tools pass to fetchWithRetry
maxRetries == 3

\* extractMainContent: a candidate must be longer than this
MinContentLength == 500

\* web_search: default and hard cap of max_results, scaled values are not
\* needed: the page never has more than a few anchors
DefaultMaxResults == 10
HardMaxResults == 20

Reqs == 1..NumReqs

\* the speak calls of the TTS extension that may overlap
NumSpeakers == 2
Speakers == 1..NumSpeakers

Min(a, b) == IF a <= b THEN a ELSE b

(* ------------------------------------------------------------------ *)
(* Text helpers                                                        *)
(* ------------------------------------------------------------------ *)

LF == "\n"

\* F(x), with x evaluated once before F is applied to its value
Strict(F(_), x) == CHOOSE y \in {F(v) : v \in {x}} : TRUE

\* String.length of one token: a character is 1, "x600" is a run of 600
\* letters ("x481", "x482": of 481, 482), a tag or an entity is as long as
\* it is written
TokenChars(c) ==
    CASE c = "e2"   -> 1
      [] c = "x600" -> 600
      [] c = "x481" -> 481
      [] c = "x482" -> 482
      [] OTHER      -> Len(c)

\* string.length
RECURSIVE length(_)
length(t) ==
    Strict(LAMBDA v : IF v = <<>> THEN 0
                      ELSE Strict(TokenChars, Head(v)) + length(Tail(v)), t)

\* Buffer.byteLength of one token, UTF-8
TokenBytes(c) == IF c = "e2" THEN 2 ELSE TokenChars(c)

RECURSIVE byteLength(_)
byteLength(t) ==
    Strict(LAMBDA v : IF v = <<>> THEN 0
                      ELSE Strict(TokenBytes, Head(v)) + byteLength(Tail(v)), t)

\* position of the first LF of t, 0 if none
FirstLF(t) ==
    IF \E k \in 1..Len(t) : t[k] = LF
    THEN CHOOSE k \in 1..Len(t) : t[k] = LF /\ \A j \in 1..(k - 1) : t[j] # LF
    ELSE 0

\* content.split("\n")
RECURSIVE SplitLines(_)
SplitLines(t) ==
    Strict(LAMBDA v :
              Strict(LAMBDA k : IF k = 0 THEN <<v>>
                                ELSE <<SubSeq(v, 1, k - 1)>>
                                         \o SplitLines(SubSeq(v, k + 1, Len(v))),
                     FirstLF(v)),
           t)

\* lines.join("\n")
RECURSIVE JoinLines(_)
JoinLines(ls) ==
    Strict(LAMBDA v : IF v = <<>> THEN <<>>
                      ELSE IF Len(v) = 1 THEN v[1]
                      ELSE v[1] \o <<LF>> \o JoinLines(Tail(v)), ls)

(* ------------------------------------------------------------------ *)
(* Truncator (tools/truncate.ts, described in section 4.5 of the       *)
(* design document): keeps the head of the text in whole lines and     *)
(* drops the tail once the byte cap or the line cap is hit             *)
(* ------------------------------------------------------------------ *)

\* the first k lines of ls
FirstLines(ls, k) == SubSeq(ls, 1, k)

\* whether the first k lines fit both caps
Fits(ls, k) == k <= MaxLines /\ byteLength(JoinLines(FirstLines(ls, k))) <= MaxBytes

\* how many leading whole lines fit both caps
KeptLines(ls) ==
    Strict(LAMBDA v : CHOOSE k \in 0..Len(v) :
                          /\ \A j \in 0..k : Fits(v, j)
                          /\ (k < Len(v) => ~Fits(v, k + 1)),
           ls)

\* the result for text t of lines ls of which the first n are kept when t
\* does not fit
HeadResult(t, ls, n) ==
    LET fitsAll == Len(ls) <= MaxLines /\ byteLength(t) <= MaxBytes
    IN  [content     |-> IF fitsAll THEN t ELSE JoinLines(FirstLines(ls, n)),
         truncated   |-> ~fitsAll,
         totalBytes  |-> byteLength(t),
         outputBytes |-> IF fitsAll THEN byteLength(t)
                         ELSE byteLength(JoinLines(FirstLines(ls, n))),
         totalLines  |-> Len(ls),
         outputLines |-> IF fitsAll THEN Len(ls) ELSE n]

\* variant of truncateHead that reports the totals as the output sizes
truncateHeadStaleSizes(t) ==
    Strict(LAMBDA v :
              Strict(LAMBDA ls :
                        [HeadResult(v, ls, KeptLines(ls))
                            EXCEPT !.outputBytes = byteLength(v), !.outputLines = Len(ls)],
                     SplitLines(v)),
           t)

\* variant of truncateHead that also keeps the line on which the byte cap is hit
truncateHeadKeepsCutLine(t) ==
    Strict(LAMBDA v :
              Strict(LAMBDA ls :
                        Strict(LAMBDA n :
                                  HeadResult(v, ls, IF n < MaxLines /\ n < Len(ls)
                                                    THEN n + 1 ELSE n),
                               KeptLines(ls)),
                     SplitLines(v)),
           t)

truncateHead(t) ==
    Strict(LAMBDA v :
              Strict(LAMBDA ls : HeadResult(v, ls, KeptLines(ls)), SplitLines(v)),
           t)

NoTruncation ==
    [content |-> <<>>, truncated |-> FALSE, totalBytes |-> 0, outputBytes |-> 0,
     totalLines |-> 0, outputLines |-> 0]

(* ------------------------------------------------------------------ *)
(* Markup conversion (web-read.ts), on tokens                          *)
(* ------------------------------------------------------------------ *)

\* The tags of the pages.  An opening tag is written with its attributes.
OpenTags ==
    {"<i>", "<br>", "<title>", "<h1>", "<body>", "<article>", "<main>", "<p>",
     "<div id=\"main\">", "<div id=\"content\">", "<section id='main'>",
     "<div class=\"post\">", "<div class=\"main-nav\">", "<div role=\"main\">",
     "<script>", "<style>", "<nav>", "<footer>", "<header>", "<aside>"}

CloseTags ==
    {"</i>", "</title>", "</h1>", "</body>", "</article>", "</main>", "</p>", "</div>",
     "</section>", "</script>", "</style>", "</nav>", "</footer>", "</header>", "</aside>"}

IsTag(c) == c \in OpenTags \cup CloseTags
IsSpace(c) == c \in {" ", LF}

\* the element name of a tag
TagName(c) ==
    CASE c \in {"<i>", "</i>"}             -> "i"
      [] c = "<br>"                        -> "br"
      [] c \in {"<title>", "</title>"}     -> "title"
      [] c \in {"<h1>", "</h1>"}           -> "h1"
      [] c \in {"<body>", "</body>"}       -> "body"
      [] c \in {"<article>", "</article>"} -> "article"
      [] c \in {"<main>", "</main>"}       -> "main"
      [] c \in {"<p>", "</p>"}             -> "p"
      [] c \in {"<div id=\"main\">", "<div id=\"content\">", "<div class=\"post\">",
                "<div class=\"main-nav\">", "<div role=\"main\">", "</div>"} -> "div"
      [] c \in {"<section id='main'>", "</section>"} -> "section"
      [] c \in {"<script>", "</script>"}   -> "script"
      [] c \in {"<style>", "</style>"}     -> "style"
      [] c \in {"<nav>", "</nav>"}         -> "nav"
      [] c \in {"<footer>", "</footer>"}   -> "footer"
      [] c \in {"<header>", "</header>"}   -> "header"
      [] c \in {"<aside>", "</aside>"}     -> "aside"
      [] OTHER                             -> ""

\* the id attribute of a tag and the quotes it is written in
TagId(c) ==
    CASE c \in {"<div id=\"main\">", "<section id='main'>"} -> "main"
      [] c = "<div id=\"content\">" -> "content"
      [] OTHER -> ""

TagIdQuote(c) == IF c = "<section id='main'>" THEN "'" ELSE "\""

\* the class attribute of a tag
TagClass(c) ==
    CASE c = "<div class=\"post\">" -> "post"
      [] c = "<div class=\"main-nav\">" -> "main-nav"
      [] OTHER -> ""

\* the role attribute of a tag
TagRole(c) == IF c = "<div role=\"main\">" THEN "main" ELSE ""

\* position of the first token of t after position p that ends a tag (a tag,
\* or a stray ">"), 0 if none
NextGt(t, p) ==
    IF \E k \in (p + 1)..Len(t) : IsTag(t[k]) \/ t[k] = ">"
    THEN CHOOSE k \in (p + 1)..Len(t) :
             /\ IsTag(t[k]) \/ t[k] = ">"
             /\ \A j \in (p + 1)..(k - 1) : ~(IsTag(t[j]) \/ t[j] = ">")
    ELSE 0

\* variant of stripTags that removes the tags it knows and nothing else
stripTagsKnownOnly(t) == SelectSeq(t, LAMBDA c : ~IsTag(c))

\* html.replace(/<[^>]+>/g, ""): a tag goes; a stray "<" goes with all that
\* follows it up to the next ">", unless that ">" follows at once
RECURSIVE stripTags(_)
stripTags(t) ==
    Strict(LAMBDA v :
              IF v = <<>> THEN <<>>
              ELSE IF IsTag(Head(v)) THEN stripTags(Tail(v))
              ELSE IF Head(v) = "<" /\ NextGt(v, 1) # 0 /\ ~(v[2] = ">")
                   THEN stripTags(SubSeq(v, NextGt(v, 1) + 1, Len(v)))
              ELSE <<Head(v)>> \o stripTags(Tail(v)),
           t)

\* one .replace(/<entity>/g, ch) pass: the entity token, or the text "&"
\* followed by the rest of the entity's name, becomes ch
RECURSIVE ReplaceEntity(_, _, _, _)
ReplaceEntity(t, entity, rest, ch) ==
    Strict(LAMBDA v :
              IF v = <<>> THEN <<>>
              ELSE IF Head(v) = entity
                   THEN <<ch>> \o ReplaceEntity(Tail(v), entity, rest, ch)
              ELSE IF Len(v) >= 2 /\ v[1] = "&" /\ v[2] = rest
                   THEN <<ch>> \o ReplaceEntity(SubSeq(v, 3, Len(v)), entity, rest, ch)
              ELSE <<Head(v)>> \o ReplaceEntity(Tail(v), entity, rest, ch),
           t)

\* the named-entity passes, in the order of the code
decodeEntities(t) ==
    ReplaceEntity(
        ReplaceEntity(
            ReplaceEntity(
                ReplaceEntity(
                    ReplaceEntity(
                        ReplaceEntity(t, "&amp;", "amp;", "&"),
                        "&lt;", "lt;", "<"),
                    "&gt;", "gt;", ">"),
                "&quot;", "quot;", "\""),
            "&#39;", "#39;", "'"),
        "&nbsp;", "nbsp;", " ")

\* text.replace(/<br\s*\/?>/gi, "\n")
BrToLF(t) == Strict(LAMBDA v : [k \in 1..Len(v) |-> IF v[k] = "<br>" THEN LF ELSE v[k]], t)

\* text.replace(/[ \t]+/g, " ")
RECURSIVE CollapseSpaces(_)
CollapseSpaces(t) ==
    Strict(LAMBDA v : IF Len(v) < 2 THEN v
                      ELSE IF v[1] = " " /\ v[2] = " " THEN CollapseSpaces(Tail(v))
                      ELSE <<Head(v)>> \o CollapseSpaces(Tail(v)), t)

\* text.replace(/\n{3,}/g, "\n\n")
RECURSIVE CollapseLFs(_)
CollapseLFs(t) ==
    Strict(LAMBDA v : IF Len(v) < 3 THEN v
                      ELSE IF v[1] = LF /\ v[2] = LF /\ v[3] = LF THEN CollapseLFs(Tail(v))
                      ELSE <<Head(v)>> \o CollapseLFs(Tail(v)), t)

\* text.trim()
RECURSIVE TrimStart(_)
TrimStart(t) ==
    Strict(LAMBDA v : IF v # <<>> /\ IsSpace(Head(v)) THEN TrimStart(Tail(v)) ELSE v, t)

RECURSIVE TrimEnd(_)
TrimEnd(t) ==
    Strict(LAMBDA v : IF v # <<>> /\ IsSpace(v[Len(v)])
                      THEN TrimEnd(SubSeq(v, 1, Len(v) - 1)) ELSE v, t)

Trim(t) == TrimStart(TrimEnd(t))

\* position of the first "</i>" of t after position 1, 0 if none
FirstClose(t) ==
    IF \E k \in 2..Len(t) : t[k] = "</i>"
    THEN CHOOSE k \in 2..Len(t) : t[k] = "</i>" /\ \A j \in 2..(k - 1) : t[j] # "</i>"
    ELSE 0

\* md.replace(/<(em|i)[^>]*>([\s\S]*?)<\/\1>/gi, "*$2*")
RECURSIVE Emphasis(_)
Emphasis(t) ==
    Strict(LAMBDA v :
              IF v = <<>> THEN <<>>
              ELSE IF Head(v) = "<i>" /\ FirstClose(v) # 0
                   THEN <<"*">> \o SubSeq(v, 2, FirstClose(v) - 1) \o <<"*">>
                            \o Emphasis(SubSeq(v, FirstClose(v) + 1, Len(v)))
              ELSE <<Head(v)>> \o Emphasis(Tail(v)),
           t)

\* position of the first closing tag of element name in t after position 1,
\* 0 if none
FirstCloseOf(t, name) ==
    IF \E k \in 2..Len(t) : t[k] \in CloseTags /\ TagName(t[k]) = name
    THEN CHOOSE k \in 2..Len(t) :
             /\ t[k] \in CloseTags /\ TagName(t[k]) = name
             /\ \A j \in 2..(k - 1) : ~(t[j] \in CloseTags /\ TagName(t[j]) = name)
    ELSE 0

\* whether t starts with an element of the given name: /<name[^>]*>[\s\S]*?<\/name>/
StartsElement(t, name) ==
    /\ t # <<>>
    /\ Head(t) \in OpenTags
    /\ TagName(Head(t)) = name
    /\ FirstCloseOf(t, name) # 0

\* text.replace(/<name[^>]*>[\s\S]*?<\/name>/gi, "")
RECURSIVE StripElement(_, _)
StripElement(t, name) ==
    Strict(LAMBDA v :
              IF v = <<>> THEN <<>>
              ELSE IF StartsElement(v, name)
                   THEN StripElement(SubSeq(v, FirstCloseOf(v, name) + 1, Len(v)), name)
              ELSE <<Head(v)>> \o StripElement(Tail(v), name),
           t)

\* the element-stripping passes, one after the other
RECURSIVE StripElements(_, _)
StripElements(t, names) ==
    IF names = <<>> THEN t
    ELSE StripElements(StripElement(t, Head(names)), Tail(names))

\* the elements htmlToText removes with their content, in the order of the code
TextStripped == <<"script", "style", "nav", "footer", "header", "aside">>

\* the elements htmlToMarkdown removes with their content, in the order of the code
MarkdownStripped == <<"script", "style", "nav", "footer", "aside">>

\* text.replace(/<\/p>/gi, "\n\n") and the like: every token c becomes rep
RECURSIVE ReplaceToken(_, _, _)
ReplaceToken(t, c, rep) ==
    Strict(LAMBDA v :
              IF v = <<>> THEN <<>>
              ELSE (IF Head(v) = c THEN rep ELSE <<Head(v)>>) \o ReplaceToken(Tail(v), c, rep),
           t)

\* md.replace(/<h1[^>]*>([\s\S]*?)<\/h1>/gi, ...): "\n# <text>\n"
RECURSIVE Heading(_)
Heading(t) ==
    Strict(LAMBDA v :
              IF v = <<>> THEN <<>>
              ELSE IF StartsElement(v, "h1")
                   THEN <<LF, "#", " ">>
                            \o Trim(stripTags(SubSeq(v, 2, FirstCloseOf(v, "h1") - 1)))
                            \o <<LF>>
                            \o Heading(SubSeq(v, FirstCloseOf(v, "h1") + 1, Len(v)))
              ELSE <<Head(v)>> \o Heading(Tail(v)),
           t)

\* md.replace(/<p[^>]*>([\s\S]*?)<\/p>/gi, "\n$1\n")
RECURSIVE Paragraph(_)
Paragraph(t) ==
    Strict(LAMBDA v :
              IF v = <<>> THEN <<>>
              ELSE IF StartsElement(v, "p")
                   THEN <<LF>> \o SubSeq(v, 2, FirstCloseOf(v, "p") - 1) \o <<LF>>
                            \o Paragraph(SubSeq(v, FirstCloseOf(v, "p") + 1, Len(v)))
              ELSE <<Head(v)>> \o Paragraph(Tail(v)),
           t)

\* the passes of htmlToText before the remaining tags are stripped; of the
\* block elements the pages have br, p, div and h1
TextBlocks(t) ==
    ReplaceToken(
        ReplaceToken(
            ReplaceToken(BrToLF(StripElements(t, TextStripped)), "</p>", <<LF, LF>>),
            "</div>", <<LF>>),
        "</h1>", <<LF, LF>>)

\* the passes of htmlToMarkdown before the remaining tags are stripped; of
\* the elements it converts the pages have h1, i, br, p and div
MarkdownBlocks(t) ==
    ReplaceToken(
        Paragraph(BrToLF(Emphasis(Heading(StripElements(t, MarkdownStripped))))),
        "</div>", <<LF>>)

htmlToText(html) ==
    Trim(CollapseLFs(CollapseSpaces(decodeEntities(stripTags(TextBlocks(html))))))

htmlToMarkdown(html) ==
    Trim(CollapseLFs(CollapseSpaces(decodeEntities(stripTags(MarkdownBlocks(html))))))

(* ------------------------------------------------------------------ *)
(* Inputs, pages and responses                                         *)
(* ------------------------------------------------------------------ *)

\* an absent optional parameter
Undefined == "undefined"

\* the last one is a page of a rate-limited host that serves one article;
\* "https://down/article" is a page of a host that answers 503 to everything
Urls == {"not a url", "ftp://host/file", "http://host/page", "https://host/page",
         "https://busy/article"}

\* new URL(url): whether it parses, and its protocol
URLParse(url) ==
    CASE url = "ftp://host/file"   -> [ok |-> TRUE,  protocol |-> "ftp:"]
      [] url = "http://host/page"  -> [ok |-> TRUE,  protocol |-> "http:"]
      [] url = "https://host/page" -> [ok |-> TRUE,  protocol |-> "https:"]
      [] url \in {"https://busy/article", "https://down/article"}
                                   -> [ok |-> TRUE,  protocol |-> "https:"]
      [] OTHER                     -> [ok |-> FALSE, protocol |-> ""]

Selectors == {Undefined, "#main"}
Formats == {Undefined, "text"}

\* hasSignal: whether the caller passed an AbortSignal (signal?: AbortSignal)

\* max_results of a search: <<>> is an absent parameter, <<n>> the number n
MaxResultsArgs == {<<>>, <<1>>}

\* the second query is one the search provider rate-limits
Queries == {"q", "busy"}

ReadInputs ==
    [tool : {"web_read"}, url : Urls, format : Formats, selector : Selectors,
     query : {""}, max_results : {<<>>}, hasSignal : BOOLEAN]

SearchInputs ==
    [tool : {"web_search"}, url : {""}, format : {Undefined}, selector : {Undefined},
     query : Queries, max_results : MaxResultsArgs, hasSignal : BOOLEAN]

\* the URL a request fetches: its url, or the search URL built from its query
FetchUrl(i) ==
    IF i.tool = "web_read" THEN i.url
    ELSE IF i.query = "busy" THEN "https://html.duckduckgo.com/html/?q=busy"
    ELSE "https://html.duckduckgo.com/html/?q=q"

Inputs == ReadInputs \cup SearchInputs

\* more lines and more bytes than the caps allow
LongText == [k \in 1..(2 * MaxLines + 1) |-> IF k % 2 = 1 THEN "a" ELSE LF]

\* A page is its markup, as web_read reads it, and the result anchors and
\* snippet containers web_search finds in it.
NoDoc == [markup |-> <<>>, items |-> <<>>]

Link(variant, href, inner) ==
    [kind |-> "link", variant |-> variant, href |-> href, inner |-> inner]

Snippet(variant, inner) ==
    [kind |-> "snippet", variant |-> variant, href |-> <<>>, inner |-> inner]

ExampleUrl == <<"https", ":", "/", "/", "example.com">>

\* //duckduckgo.com/l/?uddg=https%3A%2F%2Fexample.com&rut=x
RedirectorUrl ==
    <<"/", "/", "duckduckgo.com", "/", "l", "?", "uddg=", "https", "%3A", "%2F", "%2F",
      "example.com", "&", "rut=x">>

\* a redirector whose parameter is broken percent-encoding
BrokenRedirectorUrl == <<"/", "/", "duckduckgo.com", "/", "l", "?", "uddg=", "%">>

DocArticle ==
    [markup |-> <<"<title>", "T", "</title>", "<body>", "<i>", "a", "</i>", "<br>",
                  "<div id=\"main\">", "a", "<br>", "</div>", "a", "&amp;", "</body>">>,
     items |-> <<Link(1, ExampleUrl, <<"T">>), Snippet(1, <<"a">>),
                 Link(1, RedirectorUrl, <<"<i>", "a", "</i>">>)>>]

\* the short article of the rate-limited hosts
DocBrief ==
    [markup |-> <<"<title>", "T", "</title>", "<i>", "a", "</i>", "<br>", "a">>,
     items |-> <<Link(1, ExampleUrl, <<"T">>), Snippet(1, <<"a">>)>>]

DocLong == [markup |-> LongText, items |-> <<>>]

DocBroken == [markup |-> <<"a">>, items |-> <<Link(1, BrokenRedirectorUrl, <<"T">>)>>]

Docs == {DocArticle, DocLong, DocBroken}

NoResponse == [status |-> 0, contentType |-> "", readable |-> FALSE, doc |-> NoDoc]

Response429 == [status |-> 429, contentType |-> "", readable |-> FALSE, doc |-> NoDoc]

\* the responses a server can give
Responses ==
    {Response429}
    \cup {[status |-> 404, contentType |-> "text/html", readable |-> FALSE, doc |-> NoDoc]}
    \cup {[status |-> 200, contentType |-> "application/json", readable |-> TRUE,
           doc |-> DocArticle]}
    \cup {[status |-> 200, contentType |-> "text/html", readable |-> FALSE, doc |-> DocArticle]}
    \cup [status : {200}, contentType : {"text/html", "application/xhtml+xml", "text/plain"},
          readable : {TRUE}, doc : Docs]

ArticleResponse ==
    [status |-> 200, contentType |-> "text/html", readable |-> TRUE, doc |-> DocBrief]

\* the responses the server of a URL can give
ServerResponses(url) ==
    CASE url \in {"https://busy/article", "https://html.duckduckgo.com/html/?q=busy"}
            -> {Response429, ArticleResponse, [ArticleResponse EXCEPT !.readable = FALSE]}
      [] url = "https://down/article" -> {[Response429 EXCEPT !.status = 503]}
      [] url = "https://html.duckduckgo.com/html/?q=q"
            -> {resp \in Responses : resp.contentType \in {"", "text/html"}}
      [] OTHER -> Responses

\* response.ok
ResponseOk(resp) == resp.status >= 200 /\ resp.status <= 299

\* contentType.includes("text/html"), .includes("application/xhtml"), .includes("text/")
IsHtmlType(ct) == ct \in {"text/html", "application/xhtml+xml"}
IsTextType(ct) == ct \in {"text/html", "text/plain"}

(* ------------------------------------------------------------------ *)
(* Errors and results                                                  *)
(* ------------------------------------------------------------------ *)

NoError == [name |-> "", message |-> <<>>]
AbortError == [name |-> "AbortError", message |-> <<"This operation was aborted">>]
NetworkError == [name |-> "TypeError", message |-> <<"fetch failed">>]
URIError == [name |-> "URIError", message |-> <<"URI malformed">>]
Err(message) == [name |-> "Error", message |-> message]

NoResult ==
    [text |-> <<>>, isError |-> FALSE, truncated |-> FALSE, info |-> NoTruncation,
     resultCount |-> 0]

Result(text, isError) == [NoResult EXCEPT !.text = text, !.isError = isError]

\* catch block of web_read's execute
ReadCatch(error) ==
    IF error.name = "AbortError"
    THEN Result(<<"Request cancelled">>, FALSE)
    ELSE Result(<<"Failed to read URL: ">> \o error.message, TRUE)

\* catch block of web_search's execute
SearchCatch(error) ==
    IF error.name = "AbortError"
    THEN Result(<<"Search cancelled">>, FALSE)
    ELSE Result(<<"Search error: ">> \o error.message, TRUE)

(* ------------------------------------------------------------------ *)
(* State                                                               *)
(* ------------------------------------------------------------------ *)

VARIABLES
    input,      \* input[r]: the parameters of request r
    signal,     \* signal[r]: "none", or where request r was when its
                \* AbortSignal fired
    proc,       \* proc[r]: the locals of request r's execute() and of its
                \* fetchWithRetry(), with the calls and waits it has made
    text,       \* a text given to the truncator on its own
    trunc,      \* truncateHead(text)
    retrunc,    \* truncateHead(trunc.content)
    tpc,        \* how far the truncator has come with text
    call,       \* a call of one of the pure functions: its name and arguments
    ret,        \* what the call returns
    cpc,        \* "off", "called" or "returned"
    speaker,    \* speaker[k]: the locals of speak call k of the TTS extension
                \* and what it has contacted, spawned and played
    wav         \* the content of /tmp/pi-tts-output.wav: 0, or the speak
                \* call whose audio the file holds

vars == <<input, signal, proc, text, trunc, retrunc, tpc, call, ret, cpc, speaker, wav>>

\* a speak call that has not been made
NoSpeaker ==
    [pc |-> "off", hasRef |-> FALSE, hasRefText |-> FALSE,
     contacted |-> FALSE, answered |-> FALSE, timedOut |-> FALSE, result |-> "",
     spawned |-> FALSE, wrote |-> FALSE, played |-> 0, rejected |-> FALSE]

\* the TTS extension at rest
IdleSpeech ==
    /\ speaker = [k \in Speakers |-> NoSpeaker]
    /\ wav = 0

\* no call of a pure function
NoCall == [fn |-> "", html |-> <<>>, selector |-> "", maxResults |-> 0, max_results |-> <<>>]
NoReturn == [threw |-> FALSE, value |-> <<>>]

InitProc ==
    [pc          |-> "start",
     attempt     |-> 0,
     lastError   |-> NoError,
     response    |-> NoResponse,
     html        |-> NoDoc,
     title       |-> <<>>,
     contentHtml |-> <<>>,
     content     |-> <<>>,
     result      |-> NoResult,
     caught      |-> NoError,
     fetchCalls  |-> 0,
     waits       |-> <<>>,
     waitTime    |-> 0,
     outcomes    |-> <<>>,
     stages      |-> <<>>]

(* ------------------------------------------------------------------ *)
(* execute() and fetchWithRetry(), as functions of the request's       *)
(* parameters i and locals s                                           *)
(* ------------------------------------------------------------------ *)

\* variant of Throw in which an error that is no cancellation leaves execute()
ThrowEscapes(i, s, error) ==
    IF error.name = "AbortError"
    THEN [s EXCEPT !.pc = "returned", !.caught = error,
                   !.result = Result(<<"Request cancelled">>, FALSE)]
    ELSE [s EXCEPT !.pc = "raised", !.caught = error]

\* an error thrown inside the try block of execute() reaches its catch block
Throw(i, s, error) ==
    [s EXCEPT !.pc = "returned",
              !.caught = error,
              !.result = IF i.tool = "web_read" THEN ReadCatch(error)
                         ELSE SearchCatch(error)]

Return(s, result) == [s EXCEPT !.pc = "returned", !.result = result]

\* variant of LoopHead with the loop condition attempt <= maxRetries
LoopHeadOffByOne(i, s) ==
    IF s.attempt <= maxRetries
    THEN [s EXCEPT !.pc = "fetching", !.fetchCalls = @ + 1]
    ELSE Throw(i, s, IF s.lastError # NoError THEN s.lastError
                     ELSE Err(<<"Max retries exceeded">>))

\* the loop condition of fetchWithRetry: the next fetch call, or the final throw
LoopHead(i, s) ==
    IF s.attempt < maxRetries
    THEN [s EXCEPT !.pc = "fetching", !.fetchCalls = @ + 1]
    ELSE Throw(i, s, IF s.lastError # NoError THEN s.lastError
                     ELSE Err(<<"Max retries exceeded">>))

\* variant of ExecuteStart that validates the URL only after the fetch
ExecuteStartNoValidation(i, s) ==
    LoopHead(i, [s EXCEPT !.stages = Append(@, "fetch")])

\* execute() up to its first await
ExecuteStart(i, s) ==
    IF i.tool = "web_read" /\ ~URLParse(i.url).ok
    THEN Throw(i, s, Err(<<"Invalid URL: ", i.url>>))
    ELSE IF i.tool = "web_read" /\ URLParse(i.url).protocol \notin {"http:", "https:"}
    THEN Throw(i, s, Err(<<"Unsupported protocol: ", URLParse(i.url).protocol,
                           ". Only http and https are allowed.">>))
    ELSE LoopHead(i, [s EXCEPT !.stages = Append(@, "fetch")])

\* Math.random() * 1000: the ends of its range, in ms
RandomMs == {0, 999}

\* await new Promise((resolve) => setTimeout(resolve, waitTime)): the backoff
\* wait of the given kind before the next attempt; waitTime is base plus the
\* random part
StartWait(s, after, base, random) ==
    [s EXCEPT !.pc = "waiting",
              !.waitTime = base + random,
              !.waits = Append(@, [attempt |-> s.attempt, after |-> after, base |-> base])]

\* variant of AfterFetch that reads the body whatever the status is
AfterFetchIgnoresStatus(i, s) ==
    IF i.tool = "web_read" /\ ~IsHtmlType(s.response.contentType)
                           /\ ~IsTextType(s.response.contentType)
    THEN Throw(i, s, Err(<<"Unsupported content type: ", s.response.contentType>>))
    ELSE [s EXCEPT !.pc = "readingBody"]

\* execute() after fetchWithRetry returned, up to the await of response.text()
AfterFetch(i, s) ==
    IF ~ResponseOk(s.response)
    THEN Throw(i, s, Err(<<IF i.tool = "web_read" THEN "Failed to fetch: "
                           ELSE "Search failed: ", ToString(s.response.status)>>))
    ELSE IF i.tool = "web_read" /\ ~IsHtmlType(s.response.contentType)
                                /\ ~IsTextType(s.response.contentType)
    THEN Throw(i, s, Err(<<"Unsupported content type: ", s.response.contentType>>))
    ELSE [s EXCEPT !.pc = "readingBody"]

\* variant of FetchResolved that retries every response that is not ok
FetchResolvedRetriesNotOk(i, s, resp, random) ==
    IF ~ResponseOk(resp)
    THEN StartWait([s EXCEPT !.outcomes = Append(@, IF resp.status = 429 THEN "429"
                                                    ELSE "response"),
                             !.response = IF resp.status = 429 THEN @ ELSE resp],
                   "429", 2 ^ s.attempt * 1000, random)
    ELSE AfterFetch(i, [s EXCEPT !.outcomes = Append(@, "response"), !.response = resp])

\* fetchWithRetry from the fetch promise settling with a response
FetchResolved(i, s, resp, random) ==
    IF resp.status = 429
    THEN StartWait([s EXCEPT !.outcomes = Append(@, "429")], "429", 2 ^ s.attempt * 1000,
                   random)
    ELSE AfterFetch(i, [s EXCEPT !.outcomes = Append(@, "response"), !.response = resp])

\* variant of FetchRejected that waits after the final attempt as well
FetchRejectedAlwaysWaits(i, s, error) ==
    StartWait([s EXCEPT !.outcomes = Append(@, IF error.name = "AbortError" THEN "abort"
                                                ELSE "error"),
                        !.lastError = error],
              "error", 2 ^ s.attempt * 500, 0)

\* fetchWithRetry from the fetch promise rejecting: the catch block
FetchRejected(i, s, error) ==
    LET s1 == [s EXCEPT !.outcomes = Append(@, IF error.name = "AbortError" THEN "abort"
                                                 ELSE "error"),
                        !.lastError = error]
    IN  IF s.attempt < maxRetries - 1
        THEN StartWait(s1, "error", 2 ^ s.attempt * 500, 0)
        ELSE LoopHead(i, [s1 EXCEPT !.attempt = @ + 1])

\* the timer of a backoff wait fires: attempt++ and the loop condition
WaitOver(i, s) == LoopHead(i, [s EXCEPT !.attempt = @ + 1, !.waitTime = 0])

(* ------------------------------------------------------------------ *)
(* The stages after the fetch                                          *)
(* ------------------------------------------------------------------ *)

\* The selectors of the requests and of the content heuristics: "#id",
\* ".class" or an element name.
SelectorForm(selector) ==
    CASE selector \in {"#main", "#content", "#none"} -> "id"
      [] selector \in {".content", ".main", ".article", ".post"} -> "class"
      [] OTHER -> "element"

\* selector.slice(1) of an id or class selector, the selector itself otherwise
SelectorName(selector) ==
    CASE selector \in {"#main", ".main"} -> "main"
      [] selector \in {"#content", ".content"} -> "content"
      [] selector = "#none" -> "none"
      [] selector = ".article" -> "article"
      [] selector = ".post" -> "post"
      [] OTHER -> selector

\* class.includes(name), for the classes of the pages
ClassIncludes(class, name) ==
    \/ class = name
    \/ class = "main-nav" /\ name = "main"

\* the patterns extractBySelector builds for a selector, in the order it tries them
Patterns(selector) ==
    CASE SelectorForm(selector) = "id" ->
            <<[form |-> "id", name |-> SelectorName(selector), quote |-> "\""],
              [form |-> "id", name |-> SelectorName(selector), quote |-> "'"]>>
      [] SelectorForm(selector) = "class" ->
            <<[form |-> "class", name |-> SelectorName(selector), quote |-> "\""]>>
      [] OTHER ->
            <<[form |-> "element", name |-> selector, quote |-> ""]>>

\* whether token c is matched by the opening part of the pattern.  The
\* pattern built for the selector [role="main"] opens with "<" and one of the
\* characters r o l e = " m a i n.
PatternOpens(pat, c) ==
    /\ c \in OpenTags
    /\ CASE pat.form = "id" -> TagId(c) = pat.name /\ TagIdQuote(c) = pat.quote
         [] pat.form = "class" -> ClassIncludes(TagClass(c), pat.name)
         [] pat.name = "[role=\"main\"]" ->
                TagName(c) \in {"i", "article", "main", "nav", "aside"}
         [] OTHER -> TagName(c) = pat.name

\* whether token c is matched by the closing part of the pattern: any closing
\* tag for an id or a class, the closing tag of the name for an element
PatternCloses(pat, c) ==
    /\ c \in CloseTags
    /\ CASE pat.form \in {"id", "class"} -> TRUE
         [] pat.name = "[role=\"main\"]" -> TagName(c) = "i"
         [] OTHER -> TagName(c) = pat.name

\* position of the first token after position 1 that closes the pattern, 0 if none
FirstClosing(t, pat) ==
    IF \E k \in 2..Len(t) : PatternCloses(pat, t[k])
    THEN CHOOSE k \in 2..Len(t) :
             /\ PatternCloses(pat, t[k])
             /\ \A j \in 2..(k - 1) : ~PatternCloses(pat, t[j])
    ELSE 0

\* what html.match(pattern) holds for a match that spans the first k tokens
\* of t: the whole match
Matched(t, k) == SubSeq(t, 1, k)

\* html.match(pattern) with the g flag: the matches, from left to right
RECURSIVE MatchAll(_, _)
MatchAll(html, pat) ==
    Strict(LAMBDA v :
              IF v = <<>> THEN <<>>
              ELSE IF PatternOpens(pat, Head(v)) /\ FirstClosing(v, pat) # 0
                   THEN <<Matched(v, FirstClosing(v, pat))>>
                            \o MatchAll(SubSeq(v, FirstClosing(v, pat) + 1, Len(v)), pat)
              ELSE MatchAll(Tail(v), pat),
           html)

\* the loop of extractBySelector over its patterns
RECURSIVE FirstPatternMatches(_, _)
FirstPatternMatches(html, patterns) ==
    IF patterns = <<>> THEN <<>>
    ELSE LET matches == MatchAll(html, Head(patterns))
         IN  IF matches # <<>> THEN JoinLines(matches)
             ELSE FirstPatternMatches(html, Tail(patterns))

extractBySelector(html, selector) ==
    Strict(LAMBDA v : FirstPatternMatches(v, Patterns(selector)), html)

\* html.match(/<name[^>]*>([\s\S]*?)<\/name>/i): <<>> when nothing matches,
\* else the capture group in a sequence of one
RECURSIVE FirstElement(_, _)
FirstElement(html, name) ==
    Strict(LAMBDA v :
              IF v = <<>> THEN <<>>
              ELSE IF StartsElement(v, name)
                   THEN <<SubSeq(v, 2, FirstCloseOf(v, name) - 1)>>
              ELSE FirstElement(Tail(v), name),
           html)

extractTitle(html) ==
    LET titleMatch == FirstElement(html, "title")
        h1Match == FirstElement(html, "h1")
    IN  IF titleMatch # <<>> THEN Trim(decodeEntities(stripTags(titleMatch[1])))
        ELSE IF h1Match # <<>> THEN Trim(decodeEntities(stripTags(h1Match[1])))
        ELSE <<>>

contentSelectors ==
    <<"article", "[role=\"main\"]", "main", "#content", "#main", ".content", ".main",
      ".article", ".post">>

\* variant of FirstContent that takes the last candidate that qualifies
RECURSIVE LastContent(_, _)
LastContent(html, selectors) ==
    IF selectors = <<>> THEN <<>>
    ELSE IF LastContent(html, Tail(selectors)) # <<>>
         THEN LastContent(html, Tail(selectors))
    ELSE IF length(extractBySelector(html, Head(selectors))) > MinContentLength
         THEN extractBySelector(html, Head(selectors))
    ELSE <<>>

\* the loop of extractMainContent over the selectors: the first content
\* longer than MinContentLength, <<>> if there is none
RECURSIVE FirstContent(_, _)
FirstContent(html, selectors) ==
    IF selectors = <<>> THEN <<>>
    ELSE LET content == extractBySelector(html, Head(selectors))
         IN  IF length(content) > MinContentLength THEN content
             ELSE FirstContent(html, Tail(selectors))

extractMainContent(html) ==
    Strict(LAMBDA v :
              LET content == FirstContent(v, contentSelectors)
                  bodyMatch == FirstElement(v, "body")
              IN  IF content # <<>> THEN content
                  ELSE IF bodyMatch # <<>> THEN bodyMatch[1]
                  ELSE v,
           html)

\* A results page is the sequence of its result anchors and snippet
\* containers: kind "link" or "snippet", the markup variant it is written in
\* (1: class="result__a" / class="result__snippet", 2: data-testid=...), the
\* href of a link and the markup inside the element.  A URL is a sequence of
\* tokens: "https", ":", "/", a host, "uddg=", "&", a percent escape.

\* url.includes(token)
UrlIncludes(url, token) == \E k \in 1..Len(url) : url[k] = token

\* url.match(/uddg=([^&]+)/): <<>> when nothing matches, else the capture
\* group in a sequence of one
RECURSIVE uddgMatch(_)
uddgMatch(url) ==
    Strict(LAMBDA v :
              IF Len(v) < 2 THEN <<>>
              ELSE IF v[1] = "uddg=" /\ v[2] # "&"
                   THEN LET rest == Tail(v)
                            stop == IF UrlIncludes(rest, "&")
                                    THEN CHOOSE k \in 1..Len(rest) :
                                             /\ rest[k] = "&"
                                             /\ \A j \in 1..(k - 1) : rest[j] # "&"
                                    ELSE Len(rest) + 1
                        IN  <<SubSeq(rest, 1, stop - 1)>>
              ELSE uddgMatch(Tail(v)),
           url)

\* decodeURIComponent: a percent escape becomes its character; "%" and "%zz"
\* are no escapes and make it throw a URIError
DecodeThrows(v) == UrlIncludes(v, "%") \/ UrlIncludes(v, "%zz")

decodeURIComponent(v) ==
    [k \in 1..Len(v) |-> CASE v[k] = "%3A" -> ":"
                           [] v[k] = "%2F" -> "/"
                           [] v[k] = "%26" -> "&"
                           [] OTHER -> v[k]]

\* text.replace(/\s+/g, " ")
RECURSIVE CollapseWhitespace(_)
CollapseWhitespace(t) ==
    Strict(LAMBDA v :
              IF v = <<>> THEN <<>>
              ELSE IF IsSpace(Head(v))
                   THEN IF Len(v) >= 2 /\ IsSpace(v[2]) THEN CollapseWhitespace(Tail(v))
                        ELSE <<" ">> \o CollapseWhitespace(Tail(v))
              ELSE <<Head(v)>> \o CollapseWhitespace(Tail(v)),
           t)

\* stripTags of web-search.ts: tags, the named entities, whitespace, trim
stripTagsSearch(html) == Trim(CollapseWhitespace(decodeEntities(stripTags(html))))

\* whether the link pattern / the snippet pattern of a variant matches the item
IsLink(item, variant) == item.kind = "link" /\ item.variant = variant
IsSnippet(item, variant) == item.kind = "snippet" /\ item.variant = variant

\* resultLinkRegex.test(html) ? resultLinkRegex : resultLinkRegex2
usedRegex(html) == IF \E k \in 1..Len(html) : IsLink(html[k], 1) THEN 1 ELSE 2

\* snippetRegex.test(html) ? snippetRegex : snippetRegex2
usedSnippetRegex(html) == IF \E k \in 1..Len(html) : IsSnippet(html[k], 1) THEN 1 ELSE 2

\* the URL of a matched anchor: the decoded uddg parameter of a redirector
\* href, the href itself otherwise
HrefThrows(href) ==
    UrlIncludes(href, "uddg=") /\ uddgMatch(href) # <<>> /\ DecodeThrows(uddgMatch(href)[1])

ResultUrl(href) ==
    IF UrlIncludes(href, "uddg=") /\ uddgMatch(href) # <<>>
    THEN decodeURIComponent(uddgMatch(href)[1])
    ELSE href

\* url && !url.startsWith("/") && !url.includes("duckduckgo.com") && title
Organic(url, title) ==
    /\ url # <<>>
    /\ Head(url) # "/"
    /\ ~UrlIncludes(url, "duckduckgo.com")
    /\ title # <<>>

\* variant of LinkLoop in which a discarded anchor uses up one of the maxResults
RECURSIVE LinkLoopCountsDiscarded(_, _, _, _)
LinkLoopCountsDiscarded(items, variant, maxResults, urlTitles) ==
    Strict(LAMBDA v :
              IF v = <<>> \/ Len(urlTitles) >= maxResults
              THEN [threw |-> FALSE, urlTitles |-> urlTitles]
              ELSE IF ~IsLink(Head(v), variant)
              THEN LinkLoopCountsDiscarded(Tail(v), variant, maxResults, urlTitles)
              ELSE IF HrefThrows(Head(v).href)
              THEN [threw |-> TRUE, urlTitles |-> urlTitles]
              ELSE IF Organic(ResultUrl(Head(v).href), stripTagsSearch(Head(v).inner))
              THEN LinkLoopCountsDiscarded(Tail(v), variant, maxResults,
                       Append(urlTitles, [url |-> ResultUrl(Head(v).href),
                                          title |-> stripTagsSearch(Head(v).inner)]))
              ELSE LinkLoopCountsDiscarded(Tail(v), variant, maxResults - 1, urlTitles),
           items)

\* the while loop over the matches of the link pattern: urlTitles, or the
\* URIError of decodeURIComponent
RECURSIVE LinkLoop(_, _, _, _)
LinkLoop(items, variant, maxResults, urlTitles) ==
    Strict(LAMBDA v :
              IF v = <<>> \/ Len(urlTitles) >= maxResults
              THEN [threw |-> FALSE, urlTitles |-> urlTitles]
              ELSE IF ~IsLink(Head(v), variant)
              THEN LinkLoop(Tail(v), variant, maxResults, urlTitles)
              ELSE IF HrefThrows(Head(v).href)
              THEN [threw |-> TRUE, urlTitles |-> urlTitles]
              ELSE LinkLoop(Tail(v), variant, maxResults,
                       IF Organic(ResultUrl(Head(v).href), stripTagsSearch(Head(v).inner))
                       THEN Append(urlTitles, [url |-> ResultUrl(Head(v).href),
                                               title |-> stripTagsSearch(Head(v).inner)])
                       ELSE urlTitles),
           items)

\* the while loop over the matches of the snippet pattern
RECURSIVE SnippetLoop(_, _, _, _)
SnippetLoop(items, variant, maxResults, snippets) ==
    Strict(LAMBDA v :
              IF v = <<>> \/ Len(snippets) >= maxResults THEN snippets
              ELSE IF ~IsSnippet(Head(v), variant)
              THEN SnippetLoop(Tail(v), variant, maxResults, snippets)
              ELSE SnippetLoop(Tail(v), variant, maxResults,
                               Append(snippets, stripTagsSearch(Head(v).inner))),
           items)

\* whether parseDDGResults throws: decodeURIComponent on a broken redirector
\* parameter
ParseThrows(html, maxResults) == LinkLoop(html, usedRegex(html), maxResults, <<>>).threw

\* the results parseDDGResults returns when it does not throw
parseDDGResults(html, maxResults) ==
    LET urlTitles == LinkLoop(html, usedRegex(html), maxResults, <<>>).urlTitles
        snippets == SnippetLoop(html, usedSnippetRegex(html), maxResults, <<>>)
    IN  [k \in 1..Min(Len(urlTitles), IF maxResults < 0 THEN 0 ELSE maxResults) |->
            [url |-> urlTitles[k].url,
             title |-> urlTitles[k].title,
             snippet |-> IF k <= Len(snippets) THEN snippets[k] ELSE <<>>]]

\* variant of BodyResolved that extracts and converts every body
BodyResolvedAlwaysLocates(i, s) ==
    IF i.tool = "web_search" THEN [s EXCEPT !.html = s.response.doc, !.pc = "parse"]
    ELSE [s EXCEPT !.html = s.response.doc, !.pc = "locate"]

\* await response.text() resolved
BodyResolved(i, s) ==
    IF i.tool = "web_search" THEN [s EXCEPT !.html = s.response.doc, !.pc = "parse"]
    ELSE IF ~IsHtmlType(s.response.contentType)
    THEN [s EXCEPT !.content = s.response.doc.markup, !.pc = "truncate"]
    ELSE [s EXCEPT !.html = s.response.doc, !.pc = "locate"]

\* await response.text() rejected
BodyRejected(i, s, error) == Throw(i, s, error)

\* title and content extraction
Locate(i, s) ==
    LET html == s.html.markup
        s1 == [s EXCEPT !.stages = Append(@, "locate"), !.title = extractTitle(html)]
    IN  IF i.selector # Undefined
        THEN IF extractBySelector(html, i.selector) = <<>>
             THEN Throw(i, s1, Err(<<"No content found matching selector: ", i.selector>>))
             ELSE [s1 EXCEPT !.contentHtml = extractBySelector(html, i.selector),
                             !.pc = "convert"]
        ELSE [s1 EXCEPT !.contentHtml = extractMainContent(html), !.pc = "convert"]

\* format ?? "markdown"
OutputFormat(i) == IF i.format = Undefined THEN "markdown" ELSE i.format

\* variant of Convert that gives up when the signal has fired
ConvertChecksSignal(i, s, aborted) ==
    IF aborted THEN Throw(i, [s EXCEPT !.stages = Append(@, "convert")], AbortError)
    ELSE [s EXCEPT !.stages = Append(@, "convert"),
                   !.content = IF OutputFormat(i) = "markdown" THEN htmlToMarkdown(s.contentHtml)
                               ELSE htmlToText(s.contentHtml),
                   !.pc = "truncate"]

\* conversion to the output format
Convert(i, s, aborted) ==
    [s EXCEPT !.stages = Append(@, "convert"),
              !.content = IF OutputFormat(i) = "markdown" THEN htmlToMarkdown(s.contentHtml)
                          ELSE htmlToText(s.contentHtml),
              !.pc = "truncate"]

TruncationNote(t) ==
    <<"\n\n[Content truncated: showing ", ToString(t.outputLines), " of ",
      ToString(t.totalLines), " lines (", ToString(t.outputBytes), " of ",
      ToString(t.totalBytes), ")]">>

\* what web_read returns for the converted content (or the text body) and title
ReadOutput(i, title, content) ==
    LET truncation == truncateHead(content)
        preamble == IF title # <<>>
                    THEN <<"# ">> \o title \o <<"\n\nSource: ", i.url, "\n\n">>
                    ELSE <<>>
    IN  [text        |-> preamble \o truncation.content
                            \o (IF truncation.truncated THEN TruncationNote(truncation)
                                ELSE <<>>),
         isError     |-> FALSE,
         truncated   |-> truncation.truncated,
         info        |-> IF truncation.truncated
                         THEN [truncation EXCEPT !.content = <<>>, !.truncated = FALSE]
                         ELSE NoTruncation,
         resultCount |-> 0]

\* truncation and the result of web_read
Truncate(i, s) ==
    Return([s EXCEPT !.stages = Append(@, "truncate")], ReadOutput(i, s.title, s.content))

\* Math.min(max_results ?? 10, 20)
Limit(i) ==
    Min(IF i.max_results = <<>> THEN DefaultMaxResults ELSE i.max_results[1], HardMaxResults)

\* one result of the list: "### n. [title](url)\n", its snippet line, "\n"
ResultLines(k, r) ==
    <<"### ", ToString(k), ". [">> \o r.title \o <<"](">> \o r.url \o <<")", LF>>
        \o (IF r.snippet # <<>> THEN r.snippet \o <<LF>> ELSE <<>>) \o <<LF>>

RECURSIVE ResultList(_, _)
ResultList(results, k) ==
    IF k > Len(results) THEN <<>>
    ELSE ResultLines(k, results[k]) \o ResultList(results, k + 1)

\* what web_search returns for a results page
SearchOutput(i, html) ==
    LET results == parseDDGResults(html, Limit(i))
    IN  IF Len(results) = 0
        THEN Result(<<"No results found for ", i.query>>, FALSE)
        ELSE [Result(<<"## Search Results for ", i.query, LF, LF>>
                        \o ResultList(results, 1), FALSE)
                EXCEPT !.resultCount = Len(results)]

\* result parsing and the result of web_search
Parse(i, s) ==
    LET s1 == [s EXCEPT !.stages = Append(@, "parse")]
    IN  IF ParseThrows(s.html.items, Limit(i)) THEN Throw(i, s1, URIError)
        ELSE Return(s1, SearchOutput(i, s.html.items))

(* ------------------------------------------------------------------ *)
(* Actions of the requests                                             *)
(* ------------------------------------------------------------------ *)

\* variant of Store in which the attempt counter is one module-level variable
StoreSharedAttempt(r, s) ==
    [q \in Reqs |-> IF q = r THEN s ELSE [proc[q] EXCEPT !.attempt = s.attempt]]

\* the locals of a call belong to that call
Store(r, s) == [proc EXCEPT ![r] = s]

Aborted(r) == signal[r] # "none"

Step(r, s) ==
    /\ proc' = Store(r, s)
    /\ UNCHANGED <<speaker, wav, input, signal, text, trunc, retrunc, tpc, call, ret, cpc>>

\* the tool is called
Start(r) ==
    /\ proc[r].pc = "start"
    /\ Step(r, ExecuteStart(input[r], proc[r]))

\* the caller's AbortSignal fires while the request runs
Abort(r) ==
    /\ input[r].hasSignal
    /\ proc[r].pc \notin {"idle", "start", "returned", "raised"}
    /\ ~Aborted(r)
    /\ signal' = [signal EXCEPT ![r] = proc[r].pc]
    /\ UNCHANGED <<speaker, wav, input, proc, text, trunc, retrunc, tpc, call, ret, cpc>>

\* the server answers a fetch
FetchResponds(r) ==
    /\ proc[r].pc = "fetching"
    /\ ~Aborted(r)
    /\ \E resp \in ServerResponses(FetchUrl(input[r])), random \in RandomMs :
            Step(r, FetchResolved(input[r], proc[r], resp, random))

\* a fetch fails at the network level
FetchFails(r) ==
    /\ proc[r].pc = "fetching"
    /\ ~Aborted(r)
    /\ Step(r, FetchRejected(input[r], proc[r], NetworkError))

\* a fetch whose signal has fired rejects with an AbortError
FetchAborts(r) ==
    /\ proc[r].pc = "fetching"
    /\ Aborted(r)
    /\ Step(r, FetchRejected(input[r], proc[r], AbortError))

\* the timer of a backoff wait fires
TimerFires(r) ==
    /\ proc[r].pc = "waiting"
    /\ Step(r, WaitOver(input[r], proc[r]))

\* the body has been read
BodyArrives(r) ==
    /\ proc[r].pc = "readingBody"
    /\ ~Aborted(r)
    /\ proc[r].response.readable
    /\ Step(r, BodyResolved(input[r], proc[r]))

\* reading the body fails
BodyFails(r) ==
    /\ proc[r].pc = "readingBody"
    /\ ~Aborted(r)
    /\ ~proc[r].response.readable
    /\ Step(r, BodyRejected(input[r], proc[r], NetworkError))

\* reading the body of a request whose signal has fired rejects
BodyAborts(r) ==
    /\ proc[r].pc = "readingBody"
    /\ Aborted(r)
    /\ Step(r, BodyRejected(input[r], proc[r], AbortError))

LocateStep(r) ==
    /\ proc[r].pc = "locate"
    /\ Step(r, Locate(input[r], proc[r]))

ConvertStep(r) ==
    /\ proc[r].pc = "convert"
    /\ Step(r, Convert(input[r], proc[r], Aborted(r)))

TruncateStep(r) ==
    /\ proc[r].pc = "truncate"
    /\ Step(r, Truncate(input[r], proc[r]))

ParseStep(r) ==
    /\ proc[r].pc = "parse"
    /\ Step(r, Parse(input[r], proc[r]))

RequestStep(r) ==
    \/ Start(r)
    \/ FetchResponds(r)
    \/ FetchFails(r)
    \/ FetchAborts(r)
    \/ TimerFires(r)
    \/ BodyArrives(r)
    \/ BodyFails(r)
    \/ BodyAborts(r)
    \/ LocateStep(r)
    \/ ConvertStep(r)
    \/ TruncateStep(r)
    \/ ParseStep(r)

\* the parameters of a slot in which no tool is called
IdleInput ==
    [tool |-> "web_search", url |-> "", format |-> Undefined, selector |-> Undefined,
     query |-> "busy", max_results |-> <<>>, hasSignal |-> FALSE]

\* one request, with every input
Init ==
    /\ input \in {f \in [Reqs -> Inputs] : \A r \in Reqs \ {1} : f[r] = IdleInput}
    /\ signal = [r \in Reqs |-> "none"]
    /\ IdleSpeech
    /\ proc = [r \in Reqs |-> IF r = 1 THEN InitProc ELSE [InitProc EXCEPT !.pc = "idle"]]
    /\ text = <<>>
    /\ trunc = NoTruncation
    /\ retrunc = NoTruncation
    /\ tpc = "off"
    /\ call = NoCall
    /\ ret = NoReturn
    /\ cpc = "off"

\* the requests that run concurrently: a web_read and a web_search against
\* the rate-limited servers, both called with an AbortSignal; every further
\* slot is a web_read, without a signal, of a server that is down
ConcInput(r) ==
    CASE r = 1 -> [tool |-> "web_read", url |-> "https://busy/article",
                   format |-> Undefined, selector |-> Undefined, query |-> "",
                   max_results |-> <<>>, hasSignal |-> TRUE]
      [] r = 2 -> [tool |-> "web_search", url |-> "", format |-> Undefined,
                   selector |-> Undefined, query |-> "busy", max_results |-> <<>>,
                   hasSignal |-> TRUE]
      [] OTHER -> [tool |-> "web_read", url |-> "https://down/article",
                   format |-> Undefined, selector |-> Undefined, query |-> "",
                   max_results |-> <<>>, hasSignal |-> FALSE]

\* every slot runs a request, all at the same time
InitConc ==
    /\ input = [r \in Reqs |-> ConcInput(r)]
    /\ signal = [r \in Reqs |-> "none"]
    /\ IdleSpeech
    /\ proc = [r \in Reqs |-> InitProc]
    /\ text = <<>>
    /\ trunc = NoTruncation
    /\ retrunc = NoTruncation
    /\ tpc = "off"
    /\ call = NoCall
    /\ ret = NoReturn
    /\ cpc = "off"

Next ==
    \/ \E r \in Reqs : Start(r)
    \/ \E r \in Reqs : Abort(r)
    \/ \E r \in Reqs : FetchResponds(r)
    \/ \E r \in Reqs : FetchFails(r)
    \/ \E r \in Reqs : FetchAborts(r)
    \/ \E r \in Reqs : TimerFires(r)
    \/ \E r \in Reqs : BodyArrives(r)
    \/ \E r \in Reqs : BodyFails(r)
    \/ \E r \in Reqs : BodyAborts(r)
    \/ \E r \in Reqs : LocateStep(r)
    \/ \E r \in Reqs : ConvertStep(r)
    \/ \E r \in Reqs : TruncateStep(r)
    \/ \E r \in Reqs : ParseStep(r)

Spec == Init /\ [][Next]_vars

ConcSpec == InitConc /\ [][Next]_vars

\* A fetch promise settles, a timer fires and the body read settles; the code
\* between two awaits runs to the next await.  Nothing makes the caller abort.
FairSpec == Spec /\ \A r \in Reqs : WF_vars(RequestStep(r))

(* ------------------------------------------------------------------ *)
(* The truncator on its own                                            *)
(* ------------------------------------------------------------------ *)

RECURSIVE SeqsUpTo(_, _)
SeqsUpTo(S, n) ==
    IF n = 0 THEN {<<>>}
    ELSE LET shorter == SeqsUpTo(S, n - 1)
         IN  shorter \cup {Append(t, c) : t \in shorter, c \in S}

Texts == SeqsUpTo({"a", "e2", LF}, MaxTextLen)

InitTrunc ==
    /\ input = [r \in Reqs |-> IdleInput]
    /\ signal = [r \in Reqs |-> "none"]
    /\ IdleSpeech
    /\ proc = [r \in Reqs |-> [InitProc EXCEPT !.pc = "idle"]]
    /\ text \in Texts
    /\ trunc = NoTruncation
    /\ retrunc = NoTruncation
    /\ tpc = "input"
    /\ call = NoCall
    /\ ret = NoReturn
    /\ cpc = "off"

\* truncate(text)
TruncateText ==
    /\ tpc = "input"
    /\ trunc' = truncateHead(text)
    /\ tpc' = "truncated"
    /\ UNCHANGED <<speaker, wav, input, signal, proc, text, retrunc, call, ret, cpc>>

\* truncate the content of the result again
TruncateAgain ==
    /\ tpc = "truncated"
    /\ retrunc' = truncateHead(trunc.content)
    /\ tpc' = "retruncated"
    /\ UNCHANGED <<speaker, wav, input, signal, proc, text, trunc, call, ret, cpc>>

NextTrunc == TruncateText \/ TruncateAgain

TruncSpec == InitTrunc /\ [][NextTrunc]_vars

(* ------------------------------------------------------------------ *)
(* The search result parser on its own                                 *)
(* ------------------------------------------------------------------ *)

\* longest results page that is put together from the items below
MaxItems == 3

\* no request runs
IdleRequests ==
    /\ input = [r \in Reqs |-> IdleInput]
    /\ signal = [r \in Reqs |-> "none"]
    /\ IdleSpeech
    /\ proc = [r \in Reqs |-> [InitProc EXCEPT !.pc = "idle"]]
    /\ text = <<>>
    /\ trunc = NoTruncation
    /\ retrunc = NoTruncation
    /\ tpc = "off"

\* result anchors and snippet containers of results pages: organic results
\* in both variants, a redirector, an internal link, a link back to the
\* provider, a relative link, an anchor without text, a broken redirector
Items ==
    {Link(1, ExampleUrl, <<"T">>),
     Link(2, ExampleUrl, <<"U">>),
     Link(1, RedirectorUrl, <<"<i>", "a", "</i>">>),
     Link(1, <<"/", "settings">>, <<"T">>),
     Link(1, <<"page.html">>, <<"T">>),
     Link(1, <<"https", ":", "/", "/", "duckduckgo.com", "/", "y.js">>, <<"T">>),
     Link(1, ExampleUrl, <<"<i>", "&nbsp;", "</i>">>),
     Link(1, BrokenRedirectorUrl, <<"T">>),
     Snippet(1, <<"a">>),
     Snippet(2, <<"b">>)}

\* a page of n organic results, numbered
ManyAnchors(n) ==
    [k \in 1..n |-> Link(1, ExampleUrl \o <<"/", ToString(k)>>, <<ToString(k)>>)]

LongPages == {ManyAnchors(15), ManyAnchors(25)}

ResultsPages == SeqsUpTo(Items, MaxItems) \cup LongPages

InitParse ==
    /\ IdleRequests
    /\ call \in [fn : {"parseDDGResults"}, html : ResultsPages, selector : {""},
                  maxResults : {0, 1, 2, DefaultMaxResults, HardMaxResults},
                  max_results : {<<>>}]
              \cup [fn : {"limit"}, html : LongPages \cup SeqsUpTo(Items, 1),
                     selector : {""}, maxResults : {0},
                     max_results : {<<>>, <<0>>, <<1>>, <<25>>}]
    /\ ret = NoReturn
    /\ cpc = "called"

\* what a call of the parser with the given limit gives
ParseReturn(html, maxResults) ==
    IF ParseThrows(html, maxResults) THEN [threw |-> TRUE, value |-> <<>>]
    ELSE [threw |-> FALSE, value |-> parseDDGResults(html, maxResults)]

\* parseDDGResults(html, maxResults)
CallParse ==
    /\ cpc = "called"
    /\ call.fn = "parseDDGResults"
    /\ ret' = ParseReturn(call.html, call.maxResults)
    /\ cpc' = "returned"
    /\ UNCHANGED <<speaker, wav, input, signal, proc, text, trunc, retrunc, tpc, call>>

\* web_search: limit = Math.min(max_results ?? 10, 20); parseDDGResults(html, limit)
CallParseLimit ==
    /\ cpc = "called"
    /\ call.fn = "limit"
    /\ ret' = ParseReturn(call.html, Limit(call))
    /\ cpc' = "returned"
    /\ UNCHANGED <<speaker, wav, input, signal, proc, text, trunc, retrunc, tpc, call>>

NextParse == CallParse \/ CallParseLimit

ParseSpec == InitParse /\ [][NextParse]_vars

(* ------------------------------------------------------------------ *)
(* The content locator on its own                                      *)
(* ------------------------------------------------------------------ *)

\* longest markup given to extractBySelector
MaxHtmlLen == 4

\* most elements of a page given to extractMainContent
MaxBlocks == 2

\* markup with nested and repeated elements, ids in both quotes, a class
SelectorPages ==
    SeqsUpTo({"<div id=\"main\">", "<section id='main'>", "<div class=\"post\">", "</div>",
              "<p>", "</p>", "a"}, MaxHtmlLen)

\* the containers of the pages given to extractMainContent: the opening and
\* the closing tag
Containers ==
    {<<"<article>", "</article>">>, <<"<main>", "</main>">>, <<"<i>", "</i>">>,
     <<"<div id=\"content\">", "</div>">>, <<"<div id=\"main\">", "</div>">>,
     <<"<div class=\"post\">", "</div>">>, <<"<div class=\"main-nav\">", "</div>">>,
     <<"<div role=\"main\">", "</div>">>, <<"<p>", "</p>">>}

\* an element with a short or a long text, and the article elements that are
\* 500 and 501 characters long with their tags
Blocks ==
    {<<c[1], x, c[2]>> : c \in Containers, x \in {"a", "x600"}}
        \cup {<<"<article>", x, "</article>">> : x \in {"x481", "x482"}}

RECURSIVE Concat(_)
Concat(ss) == IF ss = <<>> THEN <<>> ELSE Head(ss) \o Concat(Tail(ss))

\* pages of up to MaxBlocks elements, with and without a body tag around them
ContentPages ==
    LET bodies == {Concat(bs) : bs \in SeqsUpTo(Blocks, MaxBlocks)}
    IN  bodies \cup {<<"<body>">> \o b \o <<"</body>">> : b \in bodies}

\* pages with and without a title element and an h1, in both orders
TitlePages ==
    LET titles == {<<>>, <<"<title>", "</title>">>, <<"<title>", " ", "</title>">>,
                   <<"<title>", "T", "</title>">>,
                   <<"<title>", "<i>", "T", "</i>", "&amp;", "</title>">>}
        h1s == {<<>>, <<"<h1>", "H", "</h1>">>, <<"<h1>", " ", "H", "&lt;", "</h1>">>}
    IN  {t \o h \o <<"a">> : t \in titles, h \in h1s}
            \cup {h \o t \o <<"a">> : t \in titles, h \in h1s}

InitLocate ==
    /\ IdleRequests
    /\ call \in [fn : {"extractBySelector"}, html : SelectorPages,
                  selector : {"#main", ".post", "p"}, maxResults : {0}, max_results : {<<>>}]
              \cup [fn : {"extractMainContent"}, html : ContentPages, selector : {""},
                     maxResults : {0}, max_results : {<<>>}]
              \cup [fn : {"extractTitle"}, html : TitlePages, selector : {""},
                     maxResults : {0}, max_results : {<<>>}]
    /\ ret = NoReturn
    /\ cpc = "called"

\* extractBySelector(html, selector)
CallExtractBySelector ==
    /\ cpc = "called"
    /\ call.fn = "extractBySelector"
    /\ ret' = [threw |-> FALSE, value |-> extractBySelector(call.html, call.selector)]
    /\ cpc' = "returned"
    /\ UNCHANGED <<speaker, wav, input, signal, proc, text, trunc, retrunc, tpc, call>>

\* extractMainContent(html)
CallExtractMainContent ==
    /\ cpc = "called"
    /\ call.fn = "extractMainContent"
    /\ ret' = [threw |-> FALSE, value |-> extractMainContent(call.html)]
    /\ cpc' = "returned"
    /\ UNCHANGED <<speaker, wav, input, signal, proc, text, trunc, retrunc, tpc, call>>

\* title = extractTitle(html), and the output execute() puts together for
\* that title and the content "a"
CallExtractTitle ==
    /\ cpc = "called"
    /\ call.fn = "extractTitle"
    /\ ret' = [threw |-> FALSE,
               value |-> [title |-> extractTitle(call.html),
                          output |-> ReadOutput([url |-> "https://host/page"],
                                                extractTitle(call.html), <<"a">>).text]]
    /\ cpc' = "returned"
    /\ UNCHANGED <<speaker, wav, input, signal, proc, text, trunc, retrunc, tpc, call>>

NextLocate == CallExtractBySelector \/ CallExtractMainContent \/ CallExtractTitle

LocateSpec == InitLocate /\ [][NextLocate]_vars

(* ------------------------------------------------------------------ *)
(* The converters on their own                                         *)
(* ------------------------------------------------------------------ *)

\* longest fragment given to htmlToText and htmlToMarkdown
MaxFragmentLen == 3

\* fragments of text, tags, stray angle brackets, encoded angle brackets (also
\* doubly encoded: "&amp;" before "lt;") and elements that are stripped whole
Fragments ==
    SeqsUpTo({"a", "<", ">", "<i>", "</i>", "<br>", "</p>", "&lt;", "&gt;", "&amp;", "lt;",
              "gt;", "<header>", "</header>", "<nav>", "</nav>"}, MaxFragmentLen)

InitConvert ==
    /\ IdleRequests
    /\ call \in [fn : {"convert", "decodeEntities"}, html : Fragments, selector : {""},
                  maxResults : {0}, max_results : {<<>>}]
    /\ ret = NoReturn
    /\ cpc = "called"

\* htmlToText(html) and htmlToMarkdown(html) of the same fragment
CallConvert ==
    /\ cpc = "called"
    /\ call.fn = "convert"
    /\ ret' = [threw |-> FALSE,
               value |-> [text |-> htmlToText(call.html),
                          markdown |-> htmlToMarkdown(call.html)]]
    /\ cpc' = "returned"
    /\ UNCHANGED <<speaker, wav, input, signal, proc, text, trunc, retrunc, tpc, call>>

\* decodeEntities(html)
CallDecodeEntities ==
    /\ cpc = "called"
    /\ call.fn = "decodeEntities"
    /\ ret' = [threw |-> FALSE, value |-> decodeEntities(call.html)]
    /\ cpc' = "returned"
    /\ UNCHANGED <<speaker, wav, input, signal, proc, text, trunc, retrunc, tpc, call>>

NextConvert == CallConvert \/ CallDecodeEntities

ConvertSpec == InitConvert /\ [][NextConvert]_vars

(* ------------------------------------------------------------------ *)
(* The TTS extension: the announcement text and the voice              *)
(* ------------------------------------------------------------------ *)

\* longest message text, in letters, periods, blanks and words
MaxSpeechLen == 4

\* largest tts.maxLength setting
MaxLengthSetting == 12

\* String.prototype.slice(start, end) of a text, positions counted from 0,
\* a negative position counted from the end
SliceIndex(t, k) == IF k < 0 THEN (IF Len(t) + k < 0 THEN 0 ELSE Len(t) + k) ELSE Min(k, Len(t))
Slice(t, start, end) == SubSeq(t, SliceIndex(t, start) + 1, SliceIndex(t, end))

\* String.prototype.lastIndexOf(c), counted from 0, -1 if c is not in t
LastIndexOf(t, c) ==
    IF \E k \in 1..Len(t) : t[k] = c
    THEN (CHOOSE k \in 1..Len(t) : t[k] = c /\ \A j \in (k + 1)..Len(t) : t[j] # c) - 1
    ELSE -1

\* text.replace(/\s+/g, " "): every run of white space becomes one blank
CollapseSpace(t) ==
    LET keep == {i \in 1..Len(t) : ~(IsSpace(t[i]) /\ i > 1 /\ IsSpace(t[i - 1]))}
        nth(k) == CHOOSE i \in keep : Cardinality({j \in keep : j < i}) = k - 1
    IN  [k \in 1..Cardinality(keep) |-> IF IsSpace(t[nth(k)]) THEN " " ELSE t[nth(k)]]

Ellipsis == <<".", ".", ".">>

\* truncateText(text, maxLength); lastPeriod > maxLength * 0.5 is compared
\* in halves
truncateText(t, maxLength) ==
    LET normalized == Trim(CollapseSpace(t))
        truncated == Slice(normalized, 0, maxLength - 3)
        lastPeriod == LastIndexOf(truncated, ".")
    IN  IF Len(normalized) <= maxLength THEN normalized
        ELSE IF 2 * lastPeriod > maxLength THEN Slice(truncated, 0, lastPeriod + 1)
        ELSE truncated \o Ellipsis

\* stripMarkdownForSpeech of a text of one line without markdown syntax: of
\* its replacements only the last three find something in such a text, the
\* runs of blanks, the blanks at the start of the line and the trim
stripMarkdownForSpeech(t) == Trim(TrimStart(CollapseSpace(t)))

\* extractAnnouncementText of a message with the text t: null, or the text
\* to speak
extractAnnouncementText(t, maxLength) ==
    IF t = <<>> \/ Trim(t) = <<>> THEN [isNull |-> TRUE, text |-> <<>>]
    ELSE IF stripMarkdownForSpeech(t) = <<>> THEN [isNull |-> TRUE, text |-> <<>>]
    ELSE [isNull |-> FALSE, text |-> truncateText(stripMarkdownForSpeech(t), maxLength)]

\* the characters of a text written with words
RECURSIVE Spell(_)
Spell(t) ==
    Strict(LAMBDA v : IF v = <<>> THEN <<>>
                      ELSE (IF Head(v) = "aaaa" THEN <<"a", "a", "a", "a">> ELSE <<Head(v)>>)
                               \o Spell(Tail(v)), t)

SpeechTexts == {Spell(t) : t \in SeqsUpTo({"a", ".", " ", "aaaa"}, MaxSpeechLen)}

\* the names a voice may be asked for by, the last one in no settings
VoiceNames == {"alice", "bob", "ghost"}

\* the profile of the voice with the given name
Profile(name) == [ref |-> <<name, ".wav">>, refText |-> <<name>>]
EmptyProfile == [ref |-> <<>>, refText |-> <<>>]

\* the settings: voices is the set of names with a profile, agentVoices
\* maps a model id or a model name to a voice name, <<>> if it has no entry
TtsSettings ==
    [voices : {{"alice", "bob"}, {"alice"}},
     defaultVoice : {"alice", "bob"},
     agentVoices : [{"model-id", "model-name"} -> {<<>>} \cup {<<n>> : n \in VoiceNames}]]

\* ctx.model: undefined or a model with its id and name
Models == {<<>>, <<[id |-> "model-id", name |-> "model-name"]>>}

\* the values of the --tts-voice flag and of PI_TTS_VOICE: unset, blank, a
\* name, a name after a blank
RawNames == {<<>>, <<" ">>} \cup {<<n>> : n \in VoiceNames} \cup {<<" ", "bob">>}

\* settings.voices[name] of a name that is set
HasVoice(settings, name) == name # <<>> /\ name[1] \in settings.voices

\* getVoice with the environment variable asked before the flag
getVoiceEnvFirst(settings, flag, env, model) ==
    LET fallback == IF settings.defaultVoice \in settings.voices
                    THEN Profile(settings.defaultVoice) ELSE EmptyProfile
        byId == IF model = <<>> THEN <<>> ELSE settings.agentVoices[model[1].id]
        byName == IF model = <<>> THEN <<>> ELSE settings.agentVoices[model[1].name]
    IN  IF HasVoice(settings, Trim(env)) THEN Profile(Trim(env)[1])
        ELSE IF HasVoice(settings, Trim(flag)) THEN Profile(Trim(flag)[1])
        ELSE IF HasVoice(settings, byId) THEN Profile(byId[1])
        ELSE IF HasVoice(settings, byName) THEN Profile(byName[1])
        ELSE fallback

\* getVoice(ctx)
getVoice(settings, flag, env, model) ==
    LET fallback == IF settings.defaultVoice \in settings.voices
                    THEN Profile(settings.defaultVoice) ELSE EmptyProfile
        byId == IF model = <<>> THEN <<>> ELSE settings.agentVoices[model[1].id]
        byName == IF model = <<>> THEN <<>> ELSE settings.agentVoices[model[1].name]
    IN  IF HasVoice(settings, Trim(flag)) THEN Profile(Trim(flag)[1])
        ELSE IF HasVoice(settings, Trim(env)) THEN Profile(Trim(env)[1])
        ELSE IF HasVoice(settings, byId) THEN Profile(byId[1])
        ELSE IF HasVoice(settings, byName) THEN Profile(byName[1])
        ELSE fallback

\* a call of truncateText or extractAnnouncementText with any text and
\* setting, or of getVoice with any settings, flag, variable and model
InitAnnounce ==
    /\ IdleRequests
    /\ call \in [fn : {"truncateText", "extractAnnouncementText"}, text : SpeechTexts,
                  maxLength : 0..MaxLengthSetting, settings : {<<>>}, flag : {<<>>},
                  env : {<<>>}, model : {<<>>}]
              \cup [fn : {"getVoice"}, text : {<<>>}, maxLength : {0},
                     settings : {<<c>> : c \in TtsSettings}, flag : RawNames,
                     env : RawNames,
                     model : Models]
    /\ ret = NoReturn
    /\ cpc = "called"

CallTruncateText ==
    /\ cpc = "called" /\ call.fn = "truncateText"
    /\ ret' = [threw |-> FALSE, isNull |-> FALSE,
               value |-> truncateText(call.text, call.maxLength)]
    /\ cpc' = "returned"
    /\ UNCHANGED <<speaker, wav, input, signal, proc, text, trunc, retrunc, tpc, call>>

CallExtractAnnouncementText ==
    /\ cpc = "called" /\ call.fn = "extractAnnouncementText"
    /\ LET a == extractAnnouncementText(call.text, call.maxLength)
       IN  ret' = [threw |-> FALSE, isNull |-> a.isNull, value |-> a.text]
    /\ cpc' = "returned"
    /\ UNCHANGED <<speaker, wav, input, signal, proc, text, trunc, retrunc, tpc, call>>

CallGetVoice ==
    /\ cpc = "called" /\ call.fn = "getVoice"
    /\ ret' = [threw |-> FALSE, isNull |-> FALSE,
               value |-> getVoice(call.settings[1], call.flag, call.env, call.model)]
    /\ cpc' = "returned"
    /\ UNCHANGED <<speaker, wav, input, signal, proc, text, trunc, retrunc, tpc, call>>

NextAnnounce == CallTruncateText \/ CallExtractAnnouncementText \/ CallGetVoice

AnnounceSpec == InitAnnounce /\ [][NextAnnounce]_vars

(* ------------------------------------------------------------------ *)
(* The TTS extension: speaking                                         *)
(* ------------------------------------------------------------------ *)

\* the voice profiles a handler may pass to speak: complete, or without
\* one of the two fields
SpeakVoices == {[hasRef |-> a, hasRefText |-> b] : a, b \in BOOLEAN} \ {[hasRef |-> FALSE, hasRefText |-> FALSE]}

\* messages of the errors the awaits of speakViaServer may raise, with the
\* message of the cause appended: of the request, of reading the body, of
\* writing the file
TimeoutMessage == <<"The operation was aborted due to timeout">>
RequestErrors ==
    {<<"fetch failed (connect ", "ECONNREFUSED", " 127.0.0.1)">>,
     <<"fetch failed (read ", "ECONNRESET", ")">>, TimeoutMessage}
AudioErrors == {<<"terminated (other side closed)">>, TimeoutMessage}
WriteErrors ==
    {<<"ENOENT", ": no such file or directory, open '/tmp/pi-tts-output.wav'">>,
     <<"EACCES", ": permission denied, open '/tmp/pi-tts-output.wav'">>}

\* msg.includes(word)
MessageIncludes(msg, word) == \E k \in 1..Len(msg) : msg[k] = word

\* the catch block of speakViaServer
isUnreachable(msg) ==
    \/ MessageIncludes(msg, "ECONNREFUSED")
    \/ MessageIncludes(msg, "ENOENT")
    \/ MessageIncludes(msg, "connection refused")

Caught(msg) == IF isUnreachable(msg) THEN "unreachable" ELSE "error"

\* speak after speakViaServer has returned the result: "ok" and "error" end
\* the call, "unreachable" spawns tts-clone
AfterServer(s, result) ==
    IF result \in {"ok", "error"}
    THEN [s EXCEPT !.result = result, !.pc = "returned"]
    ELSE [s EXCEPT !.result = result, !.spawned = TRUE, !.pc = "subprocess"]

\* a handler calls speak(text, voice, settings): without ref or refText it
\* returns, otherwise the request is sent to the server
Speak(k) ==
    /\ speaker[k].pc = "off"
    /\ \E voice \in SpeakVoices :
           speaker' = [speaker EXCEPT ![k] =
               IF ~voice.hasRef \/ ~voice.hasRefText
               THEN [@ EXCEPT !.hasRef = voice.hasRef, !.hasRefText = voice.hasRefText,
                              !.pc = "returned"]
               ELSE [@ EXCEPT !.hasRef = TRUE, !.hasRefText = TRUE,
                              !.contacted = TRUE, !.pc = "fetching"]]
    /\ UNCHANGED <<wav, input, signal, proc, text, trunc, retrunc, tpc, call, ret, cpc>>

\* the server answers the request, with 200 or with another status
ServerResponds(k) ==
    /\ speaker[k].pc = "fetching"
    /\ \E ok \in BOOLEAN :
           speaker' = [speaker EXCEPT ![k] =
               IF ok THEN [@ EXCEPT !.answered = TRUE, !.pc = "body"]
               ELSE AfterServer([@ EXCEPT !.answered = TRUE], "error")]
    /\ UNCHANGED <<wav, input, signal, proc, text, trunc, retrunc, tpc, call, ret, cpc>>

\* the request fails or times out
RequestFails(k) ==
    /\ speaker[k].pc = "fetching"
    /\ \E msg \in RequestErrors :
           speaker' = [speaker EXCEPT ![k] =
               AfterServer([@ EXCEPT !.timedOut = (msg = TimeoutMessage)], Caught(msg))]
    /\ UNCHANGED <<wav, input, signal, proc, text, trunc, retrunc, tpc, call, ret, cpc>>

\* resp.arrayBuffer() resolves
AudioArrives(k) ==
    /\ speaker[k].pc = "body"
    /\ speaker' = [speaker EXCEPT ![k].pc = "writing"]
    /\ UNCHANGED <<wav, input, signal, proc, text, trunc, retrunc, tpc, call, ret, cpc>>

\* resp.arrayBuffer() rejects
AudioFails(k) ==
    /\ speaker[k].pc = "body"
    /\ \E msg \in AudioErrors :
           speaker' = [speaker EXCEPT ![k] =
               AfterServer([@ EXCEPT !.timedOut = (msg = TimeoutMessage)], Caught(msg))]
    /\ UNCHANGED <<wav, input, signal, proc, text, trunc, retrunc, tpc, call, ret, cpc>>

\* writeFile("/tmp/pi-tts-output.wav", wavBytes) resolves
WriteWav(k) ==
    /\ speaker[k].pc = "writing"
    /\ wav' = k
    /\ speaker' = [speaker EXCEPT ![k].wrote = TRUE, ![k].pc = "playing"]
    /\ UNCHANGED <<input, signal, proc, text, trunc, retrunc, tpc, call, ret, cpc>>

\* writeFile rejects
WriteWavFails(k) ==
    /\ speaker[k].pc = "writing"
    /\ \E msg \in WriteErrors :
           speaker' = [speaker EXCEPT ![k] = AfterServer(@, Caught(msg))]
    /\ UNCHANGED <<wav, input, signal, proc, text, trunc, retrunc, tpc, call, ret, cpc>>

\* playWav: the player plays what the file holds; it never rejects
PlayWav(k) ==
    /\ speaker[k].pc \in {"playing", "subprocessPlaying"}
    /\ speaker' = [speaker EXCEPT ![k] =
           IF @.pc = "playing" THEN AfterServer([@ EXCEPT !.played = wav], "ok")
           ELSE [@ EXCEPT !.played = wav, !.pc = "returned"]]
    /\ UNCHANGED <<wav, input, signal, proc, text, trunc, retrunc, tpc, call, ret, cpc>>

\* tts-clone writes its output file
SubprocessWrites(k) ==
    /\ speaker[k].pc = "subprocess"
    /\ wav' = k
    /\ speaker' = [speaker EXCEPT ![k].wrote = TRUE, ![k].pc = "subprocessWritten"]
    /\ UNCHANGED <<input, signal, proc, text, trunc, retrunc, tpc, call, ret, cpc>>

\* tts-clone closes with code 0
SubprocessCloses(k) ==
    /\ speaker[k].pc = "subprocessWritten"
    /\ speaker' = [speaker EXCEPT ![k].pc = "subprocessPlaying"]
    /\ UNCHANGED <<wav, input, signal, proc, text, trunc, retrunc, tpc, call, ret, cpc>>

\* tts-clone cannot be spawned or closes with another code: speak rejects
\* and the handler logs the error
SubprocessFails(k) ==
    /\ speaker[k].pc \in {"subprocess", "subprocessWritten"}
    /\ speaker' = [speaker EXCEPT ![k].rejected = TRUE, ![k].pc = "returned"]
    /\ UNCHANGED <<wav, input, signal, proc, text, trunc, retrunc, tpc, call, ret, cpc>>

\* no speak call has been made; the handlers and instances speak at any time
InitSpeak ==
    /\ input = [r \in Reqs |-> IdleInput]
    /\ signal = [r \in Reqs |-> "none"]
    /\ proc = [r \in Reqs |-> [InitProc EXCEPT !.pc = "idle"]]
    /\ text = <<>>
    /\ trunc = NoTruncation
    /\ retrunc = NoTruncation
    /\ tpc = "off"
    /\ call = NoCall
    /\ ret = NoReturn
    /\ cpc = "off"
    /\ IdleSpeech

NextSpeak ==
    \/ \E k \in Speakers : Speak(k)
    \/ \E k \in Speakers : ServerResponds(k)
    \/ \E k \in Speakers : RequestFails(k)
    \/ \E k \in Speakers : AudioArrives(k)
    \/ \E k \in Speakers : AudioFails(k)
    \/ \E k \in Speakers : WriteWav(k)
    \/ \E k \in Speakers : WriteWavFails(k)
    \/ \E k \in Speakers : PlayWav(k)
    \/ \E k \in Speakers : SubprocessWrites(k)
    \/ \E k \in Speakers : SubprocessCloses(k)
    \/ \E k \in Speakers : SubprocessFails(k)

SpeakSpec == InitSpeak /\ [][NextSpeak]_vars

(* ------------------------------------------------------------------ *)
(* Properties                                                          *)
(* ------------------------------------------------------------------ *)

Returned(r) == proc[r].pc = "returned"

\* the first k attempts of o all ended with v
FirstAre(o, k, v) == \A j \in 1..k : o[j] = v

FailurePrefix(r) ==
    IF input[r].tool = "web_read" THEN "Failed to read URL: " ELSE "Search error: "

CancelledText(r) ==
    IF input[r].tool = "web_read" THEN <<"Request cancelled">> ELSE <<"Search cancelled">>

\* C1: with a budget of maxRetries = 3 attempts, if the first k < 3 responses
\* are 429 and response k+1 has another status, fetchWithRetry returns that
\* response after exactly k+1 fetch calls and makes no further call or wait;
\* if all 3 responses are 429 it makes exactly 3 calls and fails with "Max
\* retries exceeded".
C1_RateLimitRetry ==
    \A r \in Reqs :
        LET s == proc[r]
            o == s.outcomes
        IN  /\ \A k \in 0..(maxRetries - 1) :
                  (Len(o) > k /\ FirstAre(o, k, "429") /\ o[k + 1] = "response")
                      => /\ Len(o) = k + 1
                         /\ s.fetchCalls = k + 1
                         /\ Len(s.waits) = k
                         /\ s.response \in ServerResponses(FetchUrl(input[r])) \ {Response429}
                         /\ s.pc \notin {"fetching", "waiting"}
            /\ (Len(o) = maxRetries /\ FirstAre(o, maxRetries, "429"))
                  => /\ s.fetchCalls = maxRetries
                     /\ s.pc \in {"waiting", "returned"}
                     /\ s.pc = "returned"
                           => /\ s.caught = Err(<<"Max retries exceeded">>)
                              /\ s.result = Result(<<FailurePrefix(r), "Max retries exceeded">>,
                                                   TRUE)

\* [429, 429, 200] has led to a successful result
C1_Witness ==
    \E r \in Reqs :
        /\ proc[r].outcomes = <<"429", "429", "response">>
        /\ proc[r].response.status = 200
        /\ Returned(r)
        /\ ~proc[r].result.isError
        /\ proc[r].fetchCalls = 3

\* C2: once the caller's signal has fired during a fetch or a backoff wait,
\* fetchWithRetry starts no further backoff wait and makes no further fetch
\* call, and the request ends as cancelled.
C2_NoRetryAfterCancel ==
    [][\A r \in Reqs :
          signal[r] \in {"fetching", "waiting"}
              => /\ proc'[r].fetchCalls = proc[r].fetchCalls
                 /\ proc'[r].waits = proc[r].waits
                 /\ proc'[r].pc = "returned" => proc'[r].caught = AbortError]_vars

\* C3: a request whose signal fired during a fetch or a backoff wait returns
\* "Request cancelled" / "Search cancelled" without the error flag.
C3_CancelledDistinctly ==
    \A r \in Reqs :
        (Returned(r) /\ signal[r] \in {"fetching", "waiting"})
            => /\ proc[r].result.text = CancelledText(r)
               /\ ~proc[r].result.isError

\* C4: execute() never raises, and every failure that is no cancellation is
\* returned as a result with the failure text and isError = true.
C4_NeverRaises ==
    \A r \in Reqs :
        /\ proc[r].pc # "raised"
        /\ (Returned(r) /\ proc[r].caught # NoError /\ proc[r].caught.name # "AbortError")
              => /\ proc[r].result.isError
                 /\ proc[r].result.text = <<FailurePrefix(r)>> \o proc[r].caught.message
                 /\ proc[r].caught.message # <<>>

\* a page whose redirector parameter is broken made the parse fail
C4_Witness ==
    \E r \in Reqs :
        /\ Returned(r)
        /\ proc[r].caught = URIError
        /\ proc[r].result.isError

\* whether web_read accepts the URL
UrlAccepted(url) == URLParse(url).ok /\ URLParse(url).protocol \in {"http:", "https:"}

\* C5: a web_read of a URL that does not parse or is neither http nor https
\* fails at once with the invalid-URL / unsupported-protocol error result,
\* with no fetch call and no backoff wait.
C5_BadUrlNoNetwork ==
    \A r \in Reqs :
        (input[r].tool = "web_read" /\ ~UrlAccepted(input[r].url) /\ proc[r].pc # "start")
            => /\ Returned(r)
               /\ proc[r].fetchCalls = 0
               /\ proc[r].waits = <<>>
               /\ proc[r].outcomes = <<>>
               /\ proc[r].result.isError
               /\ proc[r].result.text[2] \in {"Invalid URL: ", "Unsupported protocol: "}

\* an ftp URL was refused
C5_Witness ==
    \E r \in Reqs :
        /\ input[r].url = "ftp://host/file"
        /\ Returned(r)
        /\ proc[r].result.text[2] = "Unsupported protocol: "
        /\ proc[r].fetchCalls = 0

AllFinished == \A r \in Reqs : proc[r].pc \in {"idle", "returned", "raised"}

\* C6: whatever the attempts' outcomes and whenever the signal fires, one
\* fetchWithRetry makes at most maxRetries = 3 fetch calls, and the request
\* terminates.
C6_BoundedCallsAndTermination ==
    /\ [](\A r \in Reqs : proc[r].fetchCalls <= maxRetries /\ Len(proc[r].outcomes) <= maxRetries)
    /\ <>AllFinished

\* a request that used its whole budget has ended
C6_Witness ==
    \E r \in Reqs :
        /\ proc[r].fetchCalls = maxRetries
        /\ proc[r].outcomes = <<"error", "429", "error">>
        /\ Returned(r)

StageRank(st) ==
    CASE st = "fetch" -> 1 [] st = "locate" -> 2 [] st = "convert" -> 3
      [] st = "truncate" -> 4 [] OTHER -> 5

\* what web_read returns for a page when nothing interrupts it
ReadResultOf(i, resp) ==
    LET html == resp.doc.markup
    IN  IF ~IsHtmlType(resp.contentType) THEN ReadOutput(i, <<>>, html)
        ELSE IF i.selector # Undefined /\ extractBySelector(html, i.selector) = <<>>
        THEN ReadCatch(Err(<<"No content found matching selector: ", i.selector>>))
        ELSE LET contentHtml == IF i.selector # Undefined
                                THEN extractBySelector(html, i.selector)
                                ELSE extractMainContent(html)
             IN  ReadOutput(i, extractTitle(html),
                            IF OutputFormat(i) = "markdown" THEN htmlToMarkdown(contentHtml)
                            ELSE htmlToText(contentHtml))

\* C7: the stages of a web_read run in the order fetch, locate, convert,
\* truncate, each at most once; and a signal that fires after the body has
\* been read changes nothing: the request returns what it returns without
\* cancellation, never "Request cancelled".
C7_StagesInOrderCancelTooLate ==
    \A r \in Reqs :
        input[r].tool = "web_read" =>
            /\ \A j, k \in 1..Len(proc[r].stages) :
                   j < k => StageRank(proc[r].stages[j]) < StageRank(proc[r].stages[k])
            /\ (Returned(r) /\ signal[r] \in {"locate", "convert", "truncate"})
                   => /\ proc[r].result = ReadResultOf(input[r], proc[r].response)
                      /\ proc[r].result.text # <<"Request cancelled">>
                      /\ proc[r].stages[Len(proc[r].stages)] \in {"locate", "truncate"}

\* the signal fired between locate and convert, and the page was converted
\* and truncated all the same
C7_Witness ==
    \E r \in Reqs :
        /\ input[r].tool = "web_read"
        /\ Returned(r)
        /\ signal[r] = "convert"
        /\ proc[r].stages = <<"fetch", "locate", "convert", "truncate">>
        /\ proc[r].result.truncated

\* One request run alone from locals s: its remaining attempts end as in
\* outs, a response that is no 429 is resp, and its signal fired at sig.
RECURSIVE RunAlone(_, _, _, _, _)
RunAlone(i, s, outs, resp, sig) ==
    Strict(LAMBDA v :
        CASE v.pc = "start" -> RunAlone(i, ExecuteStart(i, v), outs, resp, sig)
          [] v.pc = "fetching" ->
                IF outs = <<>> THEN v
                ELSE RunAlone(i,
                              CASE Head(outs) = "429" -> FetchResolved(i, v, Response429, 0)
                                [] Head(outs) = "response" -> FetchResolved(i, v, resp, 0)
                                [] Head(outs) = "error" -> FetchRejected(i, v, NetworkError)
                                [] OTHER -> FetchRejected(i, v, AbortError),
                              Tail(outs), resp, sig)
          [] v.pc = "waiting" -> RunAlone(i, WaitOver(i, v), outs, resp, sig)
          [] v.pc = "readingBody" ->
                RunAlone(i,
                         IF sig = "readingBody" THEN BodyRejected(i, v, AbortError)
                         ELSE IF v.response.readable THEN BodyResolved(i, v)
                         ELSE BodyRejected(i, v, NetworkError),
                         outs, resp, sig)
          [] v.pc = "locate" -> RunAlone(i, Locate(i, v), outs, resp, sig)
          [] v.pc = "convert" ->
                RunAlone(i, Convert(i, v, sig \in {"locate", "convert"}), outs, resp, sig)
          [] v.pc = "truncate" -> RunAlone(i, Truncate(i, v), outs, resp, sig)
          [] v.pc = "parse" -> RunAlone(i, Parse(i, v), outs, resp, sig)
          [] OTHER -> v,
        s)

\* C8: requests that run concurrently share no state: under every
\* interleaving of their fetches, waits and stages, a request ends with the
\* attempt counter, last error, calls, waits and result that it has when it
\* runs alone against the same network responses and cancellation, and
\* nothing another request does changes them afterwards.
C8_NoSharedState ==
    [][\A r \in Reqs :
          /\ Returned(r) => proc'[r] = proc[r]
          /\ (~Returned(r) /\ proc'[r].pc = "returned")
                => proc'[r] = RunAlone(input[r], InitProc, proc'[r].outcomes,
                                       proc'[r].response, signal[r])]_vars

\* two requests were rate-limited at the same time, at different attempts,
\* and both have ended
C8_Witness ==
    \E r, q \in Reqs :
        /\ r # q
        /\ Returned(r) /\ Returned(q)
        /\ proc[r].outcomes = <<"429", "error", "response">>
        /\ proc[q].outcomes = <<"error", "429", "429">>
        /\ ~proc[r].result.isError

\* C9: the result of the truncator has outputBytes <= totalBytes and
\* outputLines <= totalLines, and truncated holds exactly when one of the two
\* is a strict inequality.
C9_TruncationSizes ==
    tpc # "input" =>
        /\ trunc.outputBytes <= trunc.totalBytes
        /\ trunc.outputLines <= trunc.totalLines
        /\ trunc.truncated <=> (\/ trunc.outputBytes < trunc.totalBytes
                                \/ trunc.outputLines < trunc.totalLines)
        /\ trunc.totalBytes = byteLength(text)
        /\ trunc.outputBytes = byteLength(trunc.content)

\* a text was cut by the byte cap although its lines are within the line cap
C9_Witness ==
    /\ tpc = "truncated"
    /\ trunc.truncated
    /\ trunc.totalLines <= MaxLines
    /\ trunc.outputBytes > 0
    /\ trunc.outputBytes < trunc.totalBytes

\* C10: truncating the content of a truncation result again, with the same
\* caps, returns that content unchanged with truncated = false.
C10_TruncationIdempotent ==
    tpc = "retruncated" =>
        /\ retrunc.content = trunc.content
        /\ ~retrunc.truncated

\* a text that was truncated has been truncated again
C10_Witness ==
    /\ tpc = "retruncated"
    /\ trunc.truncated
    /\ trunc.content # <<>>
    /\ retrunc.content = trunc.content

\* a call of the search result parser has returned a result list
Parsed == cpc = "returned" /\ call.fn \in {"parseDDGResults", "limit"} /\ ~ret.threw

\* the maxResults the parser was called with
ParsedLimit == IF call.fn = "limit" THEN Limit(call) ELSE call.maxResults

\* the anchors of a page, of the variant that matches it, that pass the
\* discard filter, in the order of the page
OrganicAnchors(html) ==
    SelectSeq(html, LAMBDA item :
                        /\ IsLink(item, usedRegex(html))
                        /\ Organic(ResultUrl(item.href), stripTagsSearch(item.inner)))

IsAbsolute(url) == Len(url) >= 2 /\ url[1] \in {"http", "https"} /\ url[2] = ":"

\* C12: every result parseDDGResults returns has an absolute URL that does
\* not point at duckduckgo.com, and a title that is not empty.
C12_ResultsAbsoluteOrganic ==
    Parsed =>
        \A k \in 1..Len(ret.value) :
            /\ IsAbsolute(ret.value[k].url)
            /\ ~UrlIncludes(ret.value[k].url, "duckduckgo.com")
            /\ ret.value[k].title # <<>>

\* C13: the links and the snippets of one page are extracted with the same
\* markup variant: there is a variant such that every result is an anchor of
\* that variant and every snippet in the results is the text of a snippet
\* container of that variant.
C13_OneVariantPerPage ==
    Parsed =>
        \E variant \in {1, 2} :
            \A k \in 1..Len(ret.value) :
                /\ \E j \in 1..Len(call.html) :
                       /\ IsLink(call.html[j], variant)
                       /\ ret.value[k].title = stripTagsSearch(call.html[j].inner)
                /\ ret.value[k].snippet # <<>> =>
                       \E j \in 1..Len(call.html) :
                           /\ IsSnippet(call.html[j], variant)
                           /\ ret.value[k].snippet = stripTagsSearch(call.html[j].inner)

\* the status of the last response a request has received, 0 if none
RECURSIVE LastStatus(_, _)
LastStatus(outcomes, status) ==
    IF outcomes = <<>> THEN 0
    ELSE IF outcomes[Len(outcomes)] = "429" THEN 429
    ELSE IF outcomes[Len(outcomes)] = "response" THEN status
    ELSE LastStatus(SubSeq(outcomes, 1, Len(outcomes) - 1), status)

\* nothing was extracted, converted or truncated
OnlyFetched(r) ==
    /\ proc[r].stages = <<"fetch">>
    /\ proc[r].contentHtml = <<>>
    /\ proc[r].content = <<>>
    /\ ~proc[r].result.truncated

\* C14 as stated: a web_read whose last response has a status >= 400 returns
\* an error result whose text names that status, and extracts, converts and
\* truncates nothing.
C14_Original ==
    \A r \in Reqs :
        (/\ input[r].tool = "web_read"
         /\ Returned(r)
         /\ Len(proc[r].outcomes) > 0
         /\ proc[r].outcomes[Len(proc[r].outcomes)] \in {"429", "response"}
         /\ LastStatus(proc[r].outcomes, proc[r].response.status) >= 400)
            => /\ proc[r].result.isError
               /\ proc[r].result.text =
                      <<"Failed to read URL: ", "Failed to fetch: ",
                        ToString(LastStatus(proc[r].outcomes, proc[r].response.status))>>
               /\ OnlyFetched(r)

\* C14, amended: a web_read that receives a response with a status >= 400
\* other than 429 returns at once an error result whose text names the
\* status; a web_read whose last attempt is answered 429 returns an error
\* result whose text is "Max retries exceeded" or the message of its last
\* network error; neither extracts, converts or truncates anything.
C14_HttpErrorIsFetchFailure ==
    \A r \in Reqs :
        input[r].tool = "web_read" =>
            /\ proc[r].response.status >= 400 =>
                   /\ proc[r].response.status # 429
                   /\ Returned(r)
                   /\ proc[r].result.isError
                   /\ proc[r].result.text =
                          <<"Failed to read URL: ", "Failed to fetch: ",
                            ToString(proc[r].response.status)>>
                   /\ OnlyFetched(r)
            /\ (/\ Returned(r)
                /\ Len(proc[r].outcomes) = maxRetries
                /\ proc[r].outcomes[maxRetries] = "429") =>
                   /\ proc[r].result.isError
                   /\ proc[r].result.text \in
                          {<<"Failed to read URL: ", "Max retries exceeded">>,
                           <<"Failed to read URL: ">> \o NetworkError.message}
                   /\ OnlyFetched(r)

\* a web_read was answered 404 on its second attempt
C14_Witness ==
    \E r \in Reqs :
        /\ input[r].tool = "web_read"
        /\ proc[r].outcomes = <<"429", "response">>
        /\ proc[r].response.status = 404
        /\ Returned(r)
        /\ proc[r].result.isError

\* C15: web_read routes a response that is ok by its content type: an HTML or
\* XHTML body is located, converted and truncated; a text body that is no
\* HTML is truncated as it is, without title and preamble; any other type is
\* refused at once with the unsupported-content-type error, with no further
\* fetch call and no wait.
C15_RoutedByContentType ==
    \A r \in Reqs :
        (input[r].tool = "web_read" /\ ResponseOk(proc[r].response)) =>
            LET s == proc[r]
                ct == s.response.contentType
            IN  /\ (IsHtmlType(ct) /\ Returned(r) /\ s.caught = NoError) =>
                       s.stages = <<"fetch", "locate", "convert", "truncate">>
                /\ (~IsHtmlType(ct) /\ IsTextType(ct)) =>
                       /\ s.title = <<>>
                       /\ s.contentHtml = <<>>
                       /\ "locate" \notin {s.stages[k] : k \in 1..Len(s.stages)}
                       /\ "convert" \notin {s.stages[k] : k \in 1..Len(s.stages)}
                       /\ (Returned(r) /\ s.caught = NoError) =>
                              /\ s.stages = <<"fetch", "truncate">>
                              /\ s.content = s.response.doc.markup
                              /\ s.result = ReadOutput(input[r], <<>>, s.response.doc.markup)
                              /\ s.result.text[1] # "# "
                /\ (~IsHtmlType(ct) /\ ~IsTextType(ct)) =>
                       /\ Returned(r)
                       /\ s.result =
                              Result(<<"Failed to read URL: ", "Unsupported content type: ", ct>>,
                                     TRUE)
                       /\ s.stages = <<"fetch">>
                       /\ s.fetchCalls = Len(s.outcomes)
                       /\ Len(s.waits) = Len(s.outcomes) - 1

\* a page with a title was served as text/plain and returned as it is, cut
\* to the caps, without preamble
C15_Witness ==
    \E r \in Reqs :
        /\ input[r].tool = "web_read"
        /\ proc[r].response.contentType = "text/plain"
        /\ proc[r].response.doc = DocArticle
        /\ Returned(r)
        /\ proc[r].stages = <<"fetch", "truncate">>
        /\ proc[r].result.truncated

\* a selector applied by the rules of CSS: "#main" matches the elements of id
\* main, ".post" those of class post, "p" the p elements
SelectorMatches(selector, c) ==
    /\ c \in OpenTags
    /\ CASE SelectorForm(selector) = "id" -> TagId(c) = SelectorName(selector)
         [] SelectorForm(selector) = "class" -> TagClass(c) = SelectorName(selector)
         [] OTHER -> TagName(c) = selector

\* opening tags minus closing tags among the tokens p..k of t
Nesting(t, p, k) ==
    Cardinality({j \in p..k : t[j] \in OpenTags}) - Cardinality({j \in p..k : t[j] \in CloseTags})

\* position of the closing tag of the element that opens at p, 0 if none
MatchingClose(t, p) ==
    IF \E k \in (p + 1)..Len(t) : Nesting(t, p, k) = 0
    THEN CHOOSE k \in (p + 1)..Len(t) :
             /\ Nesting(t, p, k) = 0
             /\ \A j \in (p + 1)..(k - 1) : Nesting(t, p, j) # 0
    ELSE 0

\* every opening tag is closed by a tag of its name, every closing tag closes one
WellFormed(t) ==
    /\ \A p \in 1..Len(t) :
           t[p] \in OpenTags =>
               /\ MatchingClose(t, p) # 0
               /\ TagName(t[MatchingClose(t, p)]) = TagName(t[p])
    /\ \A k \in 1..Len(t) :
           t[k] \in CloseTags =>
               \E p \in 1..(k - 1) : t[p] \in OpenTags /\ MatchingClose(t, p) = k

\* C16: for a selector of form #id, .class or element name that matches
\* exactly one element of a well-formed page, extractBySelector returns that
\* element's inner markup, from after its opening tag to before its own
\* closing tag, nested elements included; for a selector that matches no
\* element it returns nothing (which execute reports as selector not found).
C16_SelectorInnerMarkup ==
    (cpc = "returned" /\ call.fn = "extractBySelector") =>
        LET html == call.html
            found == {p \in 1..Len(html) : SelectorMatches(call.selector, html[p])}
        IN  /\ (WellFormed(html) /\ Cardinality(found) = 1) =>
                   \A p \in found :
                       ret.value = SubSeq(html, p + 1, MatchingClose(html, p) - 1)
            /\ found = {} => ret.value = <<>>

\* the candidates in the order the locator is said to try them
Candidates ==
    <<"article", "[role=\"main\"]", "main", "#content", "#main", ".content", ".main",
      ".article", ".post">>

\* the candidates whose extraction is longer than 500 characters
Qualifying(html) ==
    {k \in 1..Len(Candidates) : length(extractBySelector(html, Candidates[k])) > 500}

\* the tokens between the first <body> that is closed and the first </body>
\* after it, in a sequence of one; <<>> if there is no such pair
BodyRegion(html) ==
    LET opens == {p \in 1..Len(html) : /\ html[p] = "<body>"
                                       /\ \E k \in (p + 1)..Len(html) : html[k] = "</body>"}
    IN  IF opens = {} THEN <<>>
        ELSE LET p == CHOOSE x \in opens : \A y \in opens : x <= y
                 k == CHOOSE x \in (p + 1)..Len(html) :
                          /\ html[x] = "</body>"
                          /\ \A y \in (p + 1)..(x - 1) : html[y] # "</body>"
             IN  <<SubSeq(html, p + 1, k - 1)>>

ElementText(html, name) ==
    IF FirstElement(html, name) = <<>> THEN <<>>
    ELSE Trim(decodeEntities(stripTags(FirstElement(html, name)[1])))

\* C18: the title is the text of <title> if the page yields one, the text of
\* the first <h1> exactly when <title> yields no text and the page has an
\* <h1>, and empty otherwise; the output starts with the "# <title>",
\* "Source: <url>" preamble exactly when the title is not empty.
C18_TitleThenH1 ==
    (cpc = "returned" /\ call.fn = "extractTitle") =>
        LET html == call.html
            title == ret.value.title
            output == ret.value.output
            preamble == <<"# ">> \o title \o <<"\n\nSource: ", "https://host/page", "\n\n">>
        IN  /\ ElementText(html, "title") # <<>> => title = ElementText(html, "title")
            /\ (ElementText(html, "title") = <<>> /\ FirstElement(html, "h1") # <<>>) =>
                   title = ElementText(html, "h1")
            /\ (ElementText(html, "title") = <<>> /\ FirstElement(html, "h1") = <<>>) =>
                   title = <<>>
            /\ title # <<>> => SubSeq(output, 1, Len(preamble)) = preamble
            /\ title = <<>> => output[1] # "# "

\* the fragment with every encoded angle bracket written as a brace, so that
\* what comes of an entity can be told from what was markup: "&lt;" and
\* "&amp;" "lt;" (which the passes decode twice) become "{", "&gt;" and
\* "&amp;" "gt;" become "}"
RECURSIVE Marked(_)
Marked(t) ==
    Strict(LAMBDA v :
              IF v = <<>> THEN <<>>
              ELSE IF Head(v) = "&lt;" THEN <<"{">> \o Marked(Tail(v))
              ELSE IF Head(v) = "&gt;" THEN <<"}">> \o Marked(Tail(v))
              ELSE IF Len(v) >= 2 /\ v[1] = "&amp;" /\ v[2] = "lt;"
                   THEN <<"{">> \o Marked(SubSeq(v, 3, Len(v)))
              ELSE IF Len(v) >= 2 /\ v[1] = "&amp;" /\ v[2] = "gt;"
                   THEN <<"}">> \o Marked(SubSeq(v, 3, Len(v)))
              ELSE <<Head(v)>> \o Marked(Tail(v)),
           t)

\* the braces written as angle brackets again
Unmarked(t) ==
    [k \in 1..Len(t) |-> CASE t[k] = "{" -> "<" [] t[k] = "}" -> ">" [] OTHER -> t[k]]

\* t has a tag, or a "<", one or more characters other than ">", and a ">"
HasTagSyntax(t) ==
    \/ \E k \in 1..Len(t) : IsTag(t[k])
    \/ \E p, q \in 1..Len(t) :
           /\ p + 1 < q
           /\ t[p] = "<"
           /\ t[q] = ">"
           /\ \A j \in (p + 1)..(q - 1) : t[j] # ">"

\* C19: no tag syntax that was markup in the input survives htmlToText or
\* htmlToMarkdown: with the encoded angle brackets of the fragment told apart
\* (which changes nothing else in the output), the output has no "<", one or
\* more characters other than ">", and ">".
C19_NoRawTagSyntax ==
    (cpc = "returned" /\ call.fn = "convert") =>
        /\ ret.value.text = Unmarked(htmlToText(Marked(call.html)))
        /\ ret.value.markdown = Unmarked(htmlToMarkdown(Marked(call.html)))
        /\ ~HasTagSyntax(htmlToText(Marked(call.html)))
        /\ ~HasTagSyntax(htmlToMarkdown(Marked(call.html)))
        /\ (HasTagSyntax(ret.value.text) \/ HasTagSyntax(ret.value.markdown)) =>
               call.html # Marked(call.html)

\* a tag of an unknown name in the fragment left nothing in either output
C19_Witness ==
    /\ cpc = "returned"
    /\ call.fn = "convert"
    /\ call.html = <<"<", "a", ">">>
    /\ ret.value.text = <<>>
    /\ ret.value.markdown = <<>>

\* C20: htmlToMarkdown strips the same elements with their content as
\* htmlToText does: script, style, nav, footer, header and aside; the
\* output of either is what it would be for the fragment without these
\* elements, so no text inside one of the six appears in it.
C20_SameElementsStripped ==
    (cpc = "returned" /\ call.fn = "convert") =>
        /\ ret.value.text = htmlToText(StripElements(call.html, TextStripped))
        /\ ret.value.markdown = htmlToMarkdown(StripElements(call.html, TextStripped))

\* C24: the backoff schedule of fetchWithRetry, attempts numbered from 0:
\* the wait after a 429 on attempt a is at least 2^a * 1000 ms and less than
\* 2^a * 1000 + 1000 ms; the wait after a network error on an attempt a that
\* is not the final one is exactly 2^a * 500 ms; after a network error on
\* the final attempt there is no wait and that error reaches the caller.
C24_BackoffSchedule ==
    \A r \in Reqs :
        LET s == proc[r]
            o == s.outcomes
            a == Len(o) - 1
        IN  /\ (s.pc = "waiting" /\ o[Len(o)] = "429") =>
                   /\ s.attempt = a
                   /\ s.waitTime >= 2 ^ a * 1000
                   /\ s.waitTime < 2 ^ a * 1000 + 1000
            /\ (s.pc = "waiting" /\ o[Len(o)] = "error") =>
                   /\ s.attempt = a
                   /\ a < maxRetries - 1
                   /\ s.waitTime = 2 ^ a * 500
            /\ s.pc = "waiting" => Len(s.waits) = Len(o)
            /\ s.pc # "waiting" => s.waitTime = 0
            /\ (Len(o) = maxRetries /\ o[maxRetries] = "error") =>
                   /\ s.pc = "returned"
                   /\ Len(s.waits) = maxRetries - 1
                   /\ s.caught = NetworkError
                   /\ s.result = Result(<<FailurePrefix(r)>> \o NetworkError.message, TRUE)

\* a request waits 2999 ms after the 429 of its second attempt, its first
\* attempt having ended in a network error and a wait of 500 ms
C24_Witness ==
    \E r \in Reqs :
        /\ proc[r].outcomes = <<"error", "429">>
        /\ proc[r].pc = "waiting"
        /\ proc[r].waitTime = 2999
        /\ proc[r].waits[1].base = 500

\* C25: the failure of fetchWithRetry is that of its final attempt: if the
\* final attempt received a 429 the request fails with "Max retries
\* exceeded", also when an earlier attempt ended in a network error; a
\* network error is reported only if the final attempt ended in one.
C25_FailureOfFinalAttempt ==
    \A r \in Reqs :
        LET s == proc[r]
            o == s.outcomes
        IN  (Returned(r) /\ Len(o) = maxRetries) =>
                /\ o[maxRetries] = "429" =>
                       /\ s.caught = Err(<<"Max retries exceeded">>)
                       /\ s.result = Result(<<FailurePrefix(r), "Max retries exceeded">>, TRUE)
                /\ (s.caught = NetworkError /\ o[maxRetries] # "response") =>
                       o[maxRetries] = "error"

\* the character an entity stands for; the token itself if it is no entity
EntityChar(c) ==
    CASE c \in {"&amp;", "amp;"}   -> "&"
      [] c \in {"&lt;", "lt;"}     -> "<"
      [] c \in {"&gt;", "gt;"}     -> ">"
      [] c \in {"&quot;", "quot;"} -> "\""
      [] c \in {"&#39;", "#39;"}   -> "'"
      [] c \in {"&nbsp;", "nbsp;"} -> " "
      [] OTHER -> c

\* one simultaneous substitution from left to right: every entity of t, also
\* one written as "&" and the rest of its name, becomes its character
RECURSIVE DecodedOnce(_)
DecodedOnce(t) ==
    Strict(LAMBDA v :
              IF v = <<>> THEN <<>>
              ELSE IF Len(v) >= 2 /\ v[1] = "&"
                         /\ v[2] \in {"amp;", "lt;", "gt;", "quot;", "#39;", "nbsp;"}
                   THEN <<EntityChar(v[2])>> \o DecodedOnce(SubSeq(v, 3, Len(v)))
              ELSE IF Head(v) \in {"&amp;", "&lt;", "&gt;", "&quot;", "&#39;", "&nbsp;"}
                   THEN <<EntityChar(Head(v))>> \o DecodedOnce(Tail(v))
              ELSE <<Head(v)>> \o DecodedOnce(Tail(v)),
           t)

\* C26: decodeEntities decodes every entity of its input exactly once: the
\* result is one simultaneous substitution from left to right, and what an
\* entity was decoded to is not decoded again ("&amp;" before "lt;" gives the
\* text "&lt;", not "<").
C26_DecodedExactlyOnce ==
    (cpc = "returned" /\ call.fn = "decodeEntities") => ret.value = DecodedOnce(call.html)

\* the result anchors of a page, discarded ones included, in page order
PageAnchors(html) == SelectSeq(html, LAMBDA item : IsLink(item, usedRegex(html)))

\* the snippet containers of a page in page order
PageSnippets(html) == SelectSeq(html, LAMBDA item : IsSnippet(item, usedSnippetRegex(html)))

\* whether an anchor passes the discard filter
OrganicAnchor(item) == Organic(ResultUrl(item.href), stripTagsSearch(item.inner))

\* the place among the anchors of the page of the j-th one that passes the filter
PagePlace(anchors, j) ==
    CHOOSE k \in 1..Len(anchors) :
        /\ OrganicAnchor(anchors[k])
        /\ Cardinality({x \in 1..k : OrganicAnchor(anchors[x])}) = j

\* C27: a returned result carries the snippet of its own place in the page:
\* if the result is the k-th result anchor of the page and the page has a
\* k-th snippet container, its snippet is the text of that container, also
\* when anchors before it were discarded; otherwise its snippet is empty.
C27_SnippetOfSameResult ==
    Parsed =>
        LET anchors == PageAnchors(call.html)
            snippets == PageSnippets(call.html)
        IN  \A j \in 1..Len(ret.value) :
                LET k == PagePlace(anchors, j)
                IN  ret.value[j].snippet =
                        IF k <= Len(snippets) THEN stripTagsSearch(snippets[k].inner)
                        ELSE <<>>

\* C28: parseDDGResults returns a sequence for every page and never raises:
\* the empty sequence for a page without matching anchors, and for a page
\* with an anchor whose uddg= parameter is no valid percent-encoding the
\* results of the other anchors.
C28_ParseNeverRaises ==
    (cpc = "returned" /\ call.fn \in {"parseDDGResults", "limit"}) =>
        /\ ~ret.threw
        /\ PageAnchors(call.html) = <<>> => ret.value = <<>>

\* C29: in the scan of extractMainContent the candidate [role="main"]
\* selects only elements that carry the attribute role="main": when the
\* content returned is the extraction of this candidate, every element in it
\* opens with a tag of that attribute.
C29_RoleMainByAttribute ==
    (cpc = "returned" /\ call.fn = "extractMainContent") =>
        LET q == Qualifying(call.html)
            found == MatchAll(call.html, Patterns(Candidates[2])[1])
        IN  (2 \in q /\ 1 \notin q) =>
                /\ ret.value = extractBySelector(call.html, Candidates[2])
                /\ \A k \in 1..Len(found) : TagRole(found[k][1]) = "main"

\* what a call of getVoice may take the voice from, in the order of the
\* documentation: the flag, the environment variable, agentVoices[model.id],
\* the default voice; <<>> is a source that is not set
DocumentedSources ==
    <<Trim(call.flag), Trim(call.env),
      IF call.model = <<>> THEN <<>> ELSE call.settings[1].agentVoices[call.model[1].id],
      <<call.settings[1].defaultVoice>>>>

\* the sources getVoice asks, in its order
AskedSources ==
    <<Trim(call.flag), Trim(call.env),
      IF call.model = <<>> THEN <<>> ELSE call.settings[1].agentVoices[call.model[1].id],
      IF call.model = <<>> THEN <<>> ELSE call.settings[1].agentVoices[call.model[1].name],
      <<call.settings[1].defaultVoice>>>>

\* the first position of the sequence of sources that is in the set
FirstOf(S) == CHOOSE k \in S : \A j \in S : k <= j

C22_AtMostMaxLength ==
    (cpc = "returned" /\ call.fn \in {"truncateText", "extractAnnouncementText"}) =>
        Len(ret.value) <= call.maxLength

\* C23: a speak call spawns the tts-clone subprocess only when the server
\* is not running: never after the server has answered its request or the
\* request has timed out, whatever fails afterwards; and with a voice
\* without ref or refText it contacts neither the server nor the subprocess.
C23_SubprocessOnlyIfNotRunning ==
    \A k \in Speakers :
        /\ speaker[k].spawned => ~speaker[k].answered /\ ~speaker[k].timedOut
        /\ (speaker[k].pc # "off" /\ ~(speaker[k].hasRef /\ speaker[k].hasRefText)) =>
               ~speaker[k].contacted /\ ~speaker[k].spawned

\* C30: under every interleaving of overlapping speak calls, the audio a
\* call plays is the one that call wrote to the WAV file.
C30_PlaysOwnAudio ==
    \A k \in Speakers : speaker[k].played # 0 => speaker[k].played = k

====
